---- MODULE Spec2Model ----
(***************************************************************************)
(* A model of the minizfvr tail-tracking pipeline:                         *)
(*   - the frame codec         (src/minizfvr/utils.py)                     *)
(*   - the acquisition loop    (src/minizfvr/minizftt/camera.py)           *)
(*   - the tracking loop       (src/dev/trailtracker_dev_v01/tracker.py)   *)
(*   - the tracker GUI         (src/dev/trailtracker_dev_v01/main.py)      *)
(*   - the channel client      (src/minizfvr/communication.py)             *)
(*   - the swim estimator      (src/minizfvr/minizfstim/estimator.py)      *)
(*   - the tail tracking       (src/minizfvr/utils.py)                     *)
(*   - the stimulus window     (src/minizfvr/minizfstim/main.py)           *)
(* Each component has its own specification (SpecCodec and SpecTorn, Spec  *)
(* with its extensions, SpecResults, SpecRecv, SpecEst, SpecTrack,         *)
(* SpecStim); a specification keeps the variables of the other components  *)
(* at their initial values.                                                *)
(***************************************************************************)
EXTENDS Integers, Sequences, FiniteSets, TLC

VARIABLES
    \* ---- frame codec (utils.py) ----
    arr,            \* the flat uint8 buffer handed to encode / decode
    lastImg,        \* the frame of the last encode that returned
    encRaised,      \* TRUE when the last encode call raised
    out,            \* result of the last decode call
    nEnc            \* number of encode calls made so far

VARIABLES
    \* ---- acquisition process (camera.py) ----
    acqPc,                      \* position of continuously_acquire_frames
    clock,                      \* perf_counter readings taken so far
    acqFrame,                   \* (frame, timestamp) of the fetch in progress
    cam_exit_event,             \* camera.exit_acquisition_event
    \* ---- shared between the processes (main.py) ----
    timestamp_queue,            \* mp.Queue(maxsize) of timestamps
    param_queue,                \* mp.Queue(maxsize) of parameter snapshots
    raw_frame,                  \* raw_frame_memory: number of the frame it holds
    processed_frame,            \* processed_frame_memory: frame it holds
    angle_history,              \* angle_memory: ring of <<d_angle, timestamp>>
    \* ---- tracking process (tracker.py) ----
    trkPc,                      \* position of continuously_track_tail
    trk_exit_event,             \* tracker.exit_acquisition_event
    attempt_connection_event,   \* tracker.attempt_connection_event
    connection_lost_event,      \* tracker.connection_lost_event
    conn,                       \* tracker.conn
    param,                      \* tracker.param: the current snapshot
    ii,                         \* tracker.ii
    timestamp,                  \* local of the iteration: the popped timestamp
    frame,                      \* local of the iteration: the decoded frame
    d_angle,                    \* local of the iteration
    \* ---- the channel as the tracker's socket sees it ----
    listener,                   \* "closed" | "open"
    backlog,                    \* "empty" | "client" | "aborted"
    peerAlive,                  \* the peer of conn still holds its end
    wire,                       \* messages accepted by conn.send, in order
    \* ---- history, for stating the properties ----
    pushed,                     \* timestamps put on timestamp_queue
    popped,                     \* timestamps taken from timestamp_queue
    sendCalls,                  \* one record per conn.send call
    writes,                     \* timestamps written to angle_history
    nRefresh,                   \* refresh_param calls
    nAborts,                    \* clients that went away while waiting
    acceptSinceRequest,         \* an accept returned or raised since the last click
    awaitingReconnect,          \* a send failed and no connection was made since
    raisesSinceFail,            \* connection_lost_event.set() calls since that failure
    failedAcceptsSinceFail      \* accept calls that raised since that failure

VARIABLES
    \* ---- channel client (communication.py, Receiver) ----
    connected,          \* Receiver.connected
    receiver_conn,      \* Receiver.conn: "None" | "open" | "closed"
    hostListening,      \* a Listener is open on the port
    link,               \* the host's end of the connection: "none" | "up" | "down"
    inbox,              \* messages sent by the host and not yet received
    lastRead,           \* what the last read_data call returned
    emitted,            \* connectionStateChanged emissions, in order
    lastCall,           \* the last Receiver method call and how it went
    nHostSent,          \* messages the host has sent
    nOpenCalls,         \* open_connection calls made
    awaitingOpen,       \* a receive failed and open_connection was not called since
    ioAfterFail         \* a poll, recv or Client call was made while awaitingOpen

VARIABLES
    \* ---- swim estimator (estimator.py) ----
    timestamp_buffer,   \* Estimator.timestamp_buffer
    angle_buffer,       \* Estimator.angle_buffer
    buffer_index,       \* Estimator.buffer_index
    vigor,              \* Estimator.vigor
    bias,               \* Estimator.bias
    in_bout,            \* Estimator.in_bout
    bout_onset_t,       \* Estimator.bout_onset_t
    bias_calc_pending,  \* Estimator.bias_calc_pending
    estCall,            \* the last Estimator method call
    onsetLog,           \* the times of the bout onsets detected, in order
    biasLog,            \* one record per bias computation, in order
    nRegistered         \* register_new_data calls made

VARIABLES
    \* ---- shutdown (main.py closeEvent, and the ends of the two loops) ----
    guiPc,              \* position of the GUI: "run", or where closeEvent is
    unlinked,           \* the shared regions were unlinked
    acqLog,             \* what acquisition did after its loop, in order
    trkLog,             \* what tracking did after its loop, in order
    trkTodo,            \* what tracking has still to do after its loop
    \* ---- camera panel (main.py update_data_panels) ----
    view                \* what the last timer tick did with the frame region

VARIABLES
    \* ---- tail tracking (utils.py center_of_mass_based_tracking) ----
    trackCall           \* arguments, locals and position of one call

VARIABLES
    \* ---- stimulus program (minizfstim/main.py) ----
    stim                \* run state, save flags, and the calls made on the
                        \* estimator and on the Saver, in order

VARIABLES
    \* ---- the tracker's result regions (tracker.py, main.py) ----
    res                 \* the parameter snapshot, the segment region, the
                        \* ring's allocated length and write index

codecVars == <<arr, lastImg, encRaised, out, nEnc>>

acqVars == <<acqPc, clock, acqFrame, cam_exit_event>>
shmVars == <<timestamp_queue, param_queue, raw_frame, processed_frame, angle_history>>
trkVars == <<trkPc, trk_exit_event, attempt_connection_event, connection_lost_event,
             conn, param, ii, timestamp, frame, d_angle>>
chanVars == <<listener, backlog, peerAlive, wire>>
histVars == <<pushed, popped, sendCalls, writes, nRefresh, nAborts,
              acceptSinceRequest, awaitingReconnect, raisesSinceFail,
              failedAcceptsSinceFail>>
pipeVars == <<acqVars, shmVars, trkVars, chanVars, histVars>>

recvVars == <<connected, receiver_conn, hostListening, link, inbox, lastRead,
              emitted, lastCall, nHostSent, nOpenCalls, awaitingOpen, ioAfterFail>>

estVars == <<timestamp_buffer, angle_buffer, buffer_index, vigor, bias, in_bout,
             bout_onset_t, bias_calc_pending, estCall, onsetLog, biasLog,
             nRegistered>>

closeVars == <<guiPc, unlinked, acqLog, trkLog, trkTodo>>
viewVars == <<view>>
trackVars == <<trackCall>>
stimVars == <<stim>>
resVars == <<res>>

\* what the actions of one component leave alone; the running pipeline
\* leaves the shutdown state alone
nonCodecVars == <<pipeVars, recvVars, estVars, closeVars, viewVars, trackVars, stimVars, resVars>>
nonPipeVars == <<codecVars, recvVars, estVars, closeVars, viewVars, trackVars, stimVars, resVars>>
nonRecvVars == <<codecVars, pipeVars, estVars, closeVars, viewVars, trackVars, stimVars, resVars>>
nonEstVars == <<codecVars, pipeVars, recvVars, closeVars, viewVars, trackVars, stimVars, resVars>>
nonCloseVars == <<codecVars, recvVars, estVars, viewVars, trackVars, stimVars, resVars>>
nonTrackVars == <<codecVars, pipeVars, recvVars, estVars, closeVars, viewVars, stimVars, resVars>>
nonRecvStimVars == <<codecVars, pipeVars, estVars, closeVars, viewVars, trackVars, resVars>>

vars == <<codecVars, pipeVars, recvVars, estVars, closeVars, viewVars, trackVars, stimVars, resVars>>

(***************************************************************************)
(* Generic helpers                                                         *)
(***************************************************************************)
Min(a, b) == IF a <= b THEN a ELSE b

Last(s) == s[Len(s)]

\* s is a subsequence of t: the elements of s occur in t in the same order
RECURSIVE IsSubseq(_, _)
IsSubseq(s, t) ==
    IF s = <<>> THEN TRUE
    ELSE IF t = <<>> THEN FALSE
    ELSE IF Head(s) = Head(t) THEN IsSubseq(Tail(s), Tail(t))
    ELSE IsSubseq(s, Tail(t))

NonDecreasing(s) == \A i \in 1..(Len(s) - 1) : s[i] <= s[i + 1]

(***************************************************************************)
(* FRAME CODEC  (src/minizfvr/utils.py)                                    *)
(*                                                                         *)
(* A frame is [shape |-> <<rows, cols>>, data |-> the ravelled pixels].    *)
(* Python index arr[k] is arr[k+1] here, and arr[-4..-1] are               *)
(* arr[Len-3 .. Len].                                                      *)
(***************************************************************************)

\* Length of the shared flat array.  The program allocates 1000000 bytes
\* (camera.py:72, tracker.py:150); the model uses a short buffer that still
\* holds frames whose dimension needs a non-zero high trailer byte.
Capacity == 259

\* The trailer base used by the program for both halves of a dimension.
Base == 255

\* uint8 element width of the buffer.
ByteMod == 256

\* Frame dimensions offered to the codec: the small ones and the ones around
\* the trailer base.
SmallDim == 2
DimVals == (1..SmallDim) \cup {Base - 1, Base, Base + 1}

\* Number of pixel patterns and of encode calls per behaviour.
MaxPattern == 1
MaxEncodes == 2

NoFrame == [shape |-> <<0, 0>>, data |-> <<>>, none |-> TRUE]

Size(img) == img.shape[1] * img.shape[2]

\* pixel patterns: ramps that tell every position from its neighbours, and
\* constant 255
Pixel(p, i) ==
    CASE p = 0 -> (i * 3) % ByteMod
      [] p = 1 -> 255
      [] OTHER -> (p * 31 + i * (p + 1)) % ByteMod

MkFrame(r, c, p) ==
    [shape |-> <<r, c>>, data |-> [i \in 1..(r * c) |-> Pixel(p, i)], none |-> FALSE]

Frames ==
    { MkFrame(d[1], d[2], p) :
        d \in { dd \in DimVals \X DimVals : dd[1] * dd[2] <= 2 * Capacity },
        p \in 0..MaxPattern }

\* arr[:img.size] = img.ravel() raises ValueError when the frame has more
\* pixels than the array has bytes (shape mismatch in the slice assignment).
EncodeRaises(img, a) == Size(img) > Len(a)

\* A plausible slip: the high byte written with the array's element width
\* instead of the base.
encode_frame_to_array_hi256(img, a) ==
    LET n  == Len(a)
        a0 == [i \in 1..n |-> IF i <= Size(img) THEN img.data[i] ELSE a[i]]
        a1 == [a0 EXCEPT ![n - 3] = (img.shape[1] \div ByteMod) % ByteMod]
        a2 == [a1 EXCEPT ![n - 2] = (img.shape[1] % Base) % ByteMod]
        a3 == [a2 EXCEPT ![n - 1] = (img.shape[2] \div ByteMod) % ByteMod]
        a4 == [a3 EXCEPT ![n]     = (img.shape[2] % Base) % ByteMod]
    IN a4

\* encode_frame_to_array: the four trailer stores follow the pixel store, so
\* they win where the two overlap.
encode_frame_to_array(img, a) ==
    LET n  == Len(a)
        a0 == [i \in 1..n |-> IF i <= Size(img) THEN img.data[i] ELSE a[i]]
        a1 == [a0 EXCEPT ![n - 3] = (img.shape[1] \div Base) % ByteMod]
        a2 == [a1 EXCEPT ![n - 2] = (img.shape[1] % Base) % ByteMod]
        a3 == [a2 EXCEPT ![n - 1] = (img.shape[2] \div Base) % ByteMod]
        a4 == [a3 EXCEPT ![n]     = (img.shape[2] % Base) % ByteMod]
    IN a4

\* frame_shape read back from the trailer
frame_shape(a) ==
    LET n == Len(a)
    IN <<a[n - 3] * Base + a[n - 2], a[n - 1] * Base + a[n]>>

\* arr[:rows*cols].reshape(shape) raises when the slice is shorter than
\* rows*cols
DecodeRaises(a) == frame_shape(a)[1] * frame_shape(a)[2] > Len(a)

decode_array_to_frame(a) ==
    LET sh == frame_shape(a)
    IN [shape |-> sh,
        data  |-> [i \in 1..Min(sh[1] * sh[2], Len(a)) |-> a[i]],
        none  |-> FALSE]

CodecInit ==
    /\ arr \in { [i \in 1..Capacity |-> 0], [i \in 1..Capacity |-> 255] }
    /\ lastImg = NoFrame
    /\ encRaised = FALSE
    /\ out = NoFrame
    /\ nEnc = 0

\* one call of encode_frame_to_array(img, arr)
Encode(img) ==
    /\ nEnc < MaxEncodes
    /\ nEnc' = nEnc + 1
    /\ IF EncodeRaises(img, arr)
         THEN /\ encRaised' = TRUE
              /\ UNCHANGED <<arr, lastImg>>
         ELSE /\ encRaised' = FALSE
              /\ arr' = encode_frame_to_array(img, arr)
              /\ lastImg' = img
    /\ UNCHANGED <<out, nonCodecVars>>

EncodeAny == \E img \in Frames : Encode(img)

\* one call of decode_array_to_frame(arr) on a buffer that holds a frame
Decode ==
    /\ lastImg # NoFrame
    /\ ~DecodeRaises(arr)
    /\ out' = decode_array_to_frame(arr)
    /\ UNCHANGED <<arr, lastImg, encRaised, nEnc, nonCodecVars>>

\* ---------------- a decode that falls inside an encode ----------------

\* The bytes of the buffer a after the first p byte stores of
\* encode_frame_to_array(img, a): the pixels are stored in order, then the
\* four trailer bytes.
EncodeInProgress(img, a, p) ==
    LET n    == Len(a)
        s    == Size(img)
        done == encode_frame_to_array(img, a)
    IN [i \in 1..n |->
          IF i >= n - 3 /\ i - (n - 4) <= p - s THEN done[i]
          ELSE IF i <= Min(p, s) THEN img.data[i]
          ELSE a[i]]

\* the points of an encode at which the model lets a reader look: before
\* it, after the first pixel, after the last pixel and after each store of
\* a trailer byte
TornPoints(img) == {0, 1} \cup (Size(img)..(Size(img) + 4))

\* what is left of a decode whose reshape raised
DecodeFailed(sh) == [shape |-> sh, data |-> <<>>, none |-> TRUE]

\* camera.py:77 with a camera whose frames all have one shape; a frame
\* with more pixels than the buffer has bytes raises and ends acquisition
AcqEncodeSameShape ==
    \E img \in Frames :
        /\ lastImg # NoFrame => img.shape = lastImg.shape
        /\ ~EncodeRaises(img, arr)
        /\ Encode(img)

\* tracker.py:97, after a timestamp was popped: the raw region holds a
\* frame, and acquisition may be anywhere in the encode of the next one
TrkDecodeTorn ==
    /\ lastImg # NoFrame
    /\ \E img \in {f \in Frames : f.shape = lastImg.shape} :
       \E p \in TornPoints(img) :
       \E seen \in {EncodeInProgress(img, arr, p)} :
          out' = IF DecodeRaises(seen)
                   THEN DecodeFailed(frame_shape(seen))
                   ELSE decode_array_to_frame(seen)
    /\ UNCHANGED <<arr, lastImg, encRaised, nEnc, nonCodecVars>>

(***************************************************************************)
(* ACQUISITION AND TRACKING PIPELINE                                       *)
(*   camera.py   Camera.continuously_acquire_frames                        *)
(*   tracker.py  TrackerObject.continuously_track_tail                     *)
(*   main.py     MiniZFTT (queues, shared regions, GUI callbacks)          *)
(*                                                                         *)
(* A frame is named by the number of the fetch that produced it, and that  *)
(* number is also its perf_counter timestamp: the clock advances with      *)
(* every fetch_image call, successful or not.                              *)
(***************************************************************************)

\* mp.Queue(maxsize=10) in main.py:117; the model uses a shorter queue.
TsQueueMaxsize == 2

\* angle_trace_length (parameters.py:62 sets 1000); the model uses a short ring.
AngleTraceLength == 2

\* mp.Queue(maxsize=10) in main.py:118; the model uses a shorter queue.
ParamQueueMaxsize == 2

\* Number of fetch_image calls, of refresh_param calls and of clients that go
\* away while waiting to be accepted, in a behaviour.
MaxFetch == 3
MaxRefresh == 2
MaxAborts == 1

\* np.nan (utils.py:35), as a number no angle takes
NaN == 999

\* The frame None (camera.py:100), as a number no frame takes
NoImage == -1

\* float(angles[-1] - angles[0]) for the tracked frame: tracking is a function
\* of the image, and the images of the model are such that the chain ends
\* early (angles stay NaN) on every second frame
TrackedAngle(f) == IF f % 2 = 0 THEN NaN ELSE f

\* The shapes of the frames the camera delivers and of the frames the
\* tracker writes after preprocess_image: one with a zero low byte in its
\* trailer, one with zero high bytes.
CameraShape == <<1, Base>>
ProcessedShape == <<SmallDim, SmallDim>>

\* the four trailer bytes of a buffer
Trailer(a) == SubSeq(a, Len(a) - 3, Len(a))

\* A shared frame region as created by shared_memory.SharedMemory(create=True)
\* (main.py:99-100): all zero
FreshRegion == [i \in 1..Capacity |-> 0]

\* The bytes of a region after a frame of the camera, and after a frame of
\* the tracker, was encoded into it
CameraRegion ==
    encode_frame_to_array(MkFrame(CameraShape[1], CameraShape[2], 0), FreshRegion)
ProcessedRegion ==
    encode_frame_to_array(MkFrame(ProcessedShape[1], ProcessedShape[2], 0), FreshRegion)

\* The bytes of a frame region that holds frame f, f = 0 standing for a
\* region nothing was written to
Region(f, written) == IF f = 0 THEN FreshRegion ELSE written

\* The bytes a reader in another process finds while a frame is being
\* encoded over frame f: the pixel store and the first j trailer stores of
\* utils.py:116-120 are done, the others are not
RegionDuringEncode(f, written, j) ==
    LET old == Region(f, written)
        n   == Capacity
    IN [i \in 1..n |-> IF i <= n - 4 + j THEN written[i] ELSE old[i]]

\* before the first timer tick
NoView == [tick |-> FALSE, raw |-> FALSE, trailer |-> <<0, 0, 0, 0>>, decoded |-> FALSE]

PipeInit ==
    /\ acqPc = "loop"
    /\ clock = 0
    /\ acqFrame = <<0, 0>>
    /\ cam_exit_event = FALSE
    /\ timestamp_queue = <<>>
    /\ param_queue = <<0>>
    /\ raw_frame = 0
    /\ processed_frame = 0
    /\ angle_history = [i \in 0..(AngleTraceLength - 1) |-> <<0, 0>>]
    /\ trkPc = "start"
    /\ trk_exit_event = FALSE
    /\ attempt_connection_event = FALSE
    /\ connection_lost_event = FALSE
    /\ conn = "None"
    /\ param = 0
    /\ ii = 0
    /\ timestamp = 0
    /\ frame = 0
    /\ d_angle = 0
    /\ listener = "closed"
    /\ backlog = "empty"
    /\ peerAlive = FALSE
    /\ wire = <<>>
    /\ pushed = <<>>
    /\ popped = <<>>
    /\ sendCalls = <<>>
    /\ writes = <<>>
    /\ nRefresh = 0
    /\ nAborts = 0
    /\ acceptSinceRequest = FALSE
    /\ awaitingReconnect = FALSE
    /\ raisesSinceFail = 0
    /\ failedAcceptsSinceFail = 0
    /\ guiPc = "run"
    /\ unlinked = FALSE
    /\ acqLog = <<>>
    /\ trkLog = <<>>
    /\ trkTodo = <<>>
    /\ view = NoView

(* ---------------- mp.Queue ---------------- *)

\* Queue.put(item) with the default block=True: returns only when there is room
QueuePutEnabled(q, maxsize) == Len(q) < maxsize
QueuePut(q, item) == Append(q, item)

\* Queue.get_nowait() raises Empty on an empty queue
QueueEmpty(q) == q = <<>>

\* slips: the newest item first; everything drained and only the newest kept
QueueGetNowait_lifo(q) ==
    [item |-> q[Len(q)], taken |-> <<q[Len(q)]>>, rest |-> SubSeq(q, 1, Len(q) - 1)]
QueueGetNowait_drain(q) ==
    [item |-> q[Len(q)], taken |-> q, rest |-> <<>>]

\* Queue.get_nowait() on a non-empty queue: the oldest item is returned and
\* is the only one taken off the queue
QueueGetNowait(q) ==
    [item |-> Head(q), taken |-> <<Head(q)>>, rest |-> Tail(q)]

(* ---------------- acquisition process ---------------- *)

\* while not exit: fetch_success, frame, timestamp = self.fetch_image()
AcqFetch ==
    /\ acqPc = "loop"
    /\ ~cam_exit_event
    /\ clock < MaxFetch
    /\ clock' = clock + 1
    /\ \E fetch_success \in BOOLEAN :
         IF fetch_success
           THEN /\ acqFrame' = <<clock + 1, clock + 1>>
                /\ acqPc' = "encode"
           ELSE /\ acqFrame' = acqFrame
                /\ acqPc' = "loop"
    /\ UNCHANGED <<cam_exit_event, shmVars, trkVars, chanVars, histVars, nonPipeVars>>

\* PointGreyCamera.fetch_image on an incomplete image: converted_image stays
\* None and the call returns True, None, time.perf_counter()
AcqFetchIncomplete ==
    /\ acqPc = "loop"
    /\ ~cam_exit_event
    /\ clock < MaxFetch
    /\ clock' = clock + 1
    /\ acqFrame' = <<NoImage, clock + 1>>
    /\ acqPc' = "encode"
    /\ UNCHANGED <<cam_exit_event, shmVars, trkVars, chanVars, histVars, nonPipeVars>>

\* the frame the raw-frame region holds after encode_frame_to_array wrote
\* into it (a slip: the region is left as it was)
RegionAfterEncode_stale(old, new) == old
RegionAfterEncode(old, new) == new

\* encode_frame_to_array(frame, frame_array); with frame None, img.size
\* raises AttributeError, which nothing in continuously_acquire_frames catches
AcqEncode ==
    /\ acqPc = "encode"
    /\ raw_frame' = IF acqFrame[1] = NoImage THEN raw_frame
                  ELSE RegionAfterEncode(raw_frame, acqFrame[1])
    /\ acqPc' = IF acqFrame[1] = NoImage THEN "raised" ELSE "put"
    /\ UNCHANGED <<clock, acqFrame, cam_exit_event, timestamp_queue, param_queue, processed_frame,
                   angle_history, trkVars, chanVars, histVars, nonPipeVars>>

\* timestamp_queue.put(timestamp)
AcqPut ==
    /\ acqPc = "put"
    /\ QueuePutEnabled(timestamp_queue, TsQueueMaxsize)
    /\ timestamp_queue' = QueuePut(timestamp_queue, acqFrame[2])
    /\ pushed' = Append(pushed, acqFrame[2])
    /\ acqPc' = "loop"
    /\ UNCHANGED <<clock, acqFrame, cam_exit_event, param_queue, raw_frame, processed_frame,
                   angle_history, trkVars, chanVars, nonPipeVars,
                   popped, sendCalls, writes, nRefresh, nAborts, acceptSinceRequest,
                   awaitingReconnect, raisesSinceFail, failedAcceptsSinceFail>>

\* the while condition fails: raw_frame_memory.close(); self.close()
AcqExit ==
    /\ acqPc = "loop"
    /\ cam_exit_event
    /\ acqPc' = "done"
    /\ acqLog' = acqLog \o <<"shm_close", "camera_close">>
    /\ UNCHANGED <<clock, acqFrame, cam_exit_event, shmVars, trkVars, chanVars,
                   histVars, nonCloseVars, guiPc, unlinked, trkLog, trkTodo>>

(* ---------------- tracking process ---------------- *)

\* initialize_shared_memory(); Listener(('localhost', 6000));
\* connection_lost_event.set()
TrkStart ==
    /\ trkPc = "start"
    /\ listener' = "open"
    /\ connection_lost_event' = TRUE
    /\ trkPc' = "loop"
    /\ UNCHANGED <<trk_exit_event, attempt_connection_event, conn, param, ii, timestamp,
                   frame, d_angle, backlog, peerAlive, wire,
                   acqVars, shmVars, histVars, nonPipeVars>>

\* the condition that guards listener.accept()
AcceptRequested_anyflag == attempt_connection_event \/ conn = "None"
AcceptRequested == attempt_connection_event /\ conn = "None"

\* while not exit: if attempt_connection_event.is_set() and self.conn is None
TrkTest ==
    /\ trkPc = "loop"
    /\ ~trk_exit_event
    /\ trkPc' = IF AcceptRequested THEN "accept" ELSE "clear"
    /\ UNCHANGED <<trk_exit_event, attempt_connection_event, connection_lost_event,
                   conn, param, ii, timestamp, frame, d_angle,
                   acqVars, shmVars, chanVars, histVars, nonPipeVars>>

\* self.conn = listener.accept() returns: a client was waiting
TrkAcceptOk ==
    /\ trkPc = "accept"
    /\ backlog = "client"
    /\ conn' = "Conn"
    /\ peerAlive' = TRUE
    /\ backlog' = "empty"
    /\ trkPc' = "clear"
    /\ acceptSinceRequest' = TRUE
    /\ awaitingReconnect' = FALSE
    /\ raisesSinceFail' = 0
    /\ failedAcceptsSinceFail' = 0
    /\ UNCHANGED <<trk_exit_event, attempt_connection_event, connection_lost_event,
                   param, ii, timestamp, frame, d_angle, listener, wire,
                   acqVars, shmVars, nonPipeVars,
                   pushed, popped, sendCalls, writes, nRefresh, nAborts>>

\* where the loop goes after the except branch of the accept: the program
\* falls through to the clear of the request flag (a slip: straight back to
\* the loop test, the request still set)
AfterAcceptFail_retry == "loop"
AfterAcceptFail == "clear"

\* listener.accept() raises ConnectionError: the waiting client had aborted
TrkAcceptFail ==
    /\ trkPc = "accept"
    /\ backlog = "aborted"
    /\ backlog' = "empty"
    /\ connection_lost_event' = TRUE
    /\ trkPc' = AfterAcceptFail
    /\ acceptSinceRequest' = TRUE
    /\ raisesSinceFail' = IF awaitingReconnect THEN raisesSinceFail + 1 ELSE raisesSinceFail
    /\ failedAcceptsSinceFail' =
           IF awaitingReconnect THEN failedAcceptsSinceFail + 1 ELSE failedAcceptsSinceFail
    /\ UNCHANGED <<trk_exit_event, attempt_connection_event, conn, param,
                   ii, timestamp, frame, d_angle, listener, peerAlive, wire,
                   acqVars, shmVars, nonPipeVars,
                   pushed, popped, sendCalls, writes, nRefresh, nAborts,
                   awaitingReconnect>>

\* self.attempt_connection_event.clear(); then
\* self.param = param_queue.get_nowait(), or Empty.  The two statements touch
\* different objects and nothing else reads either in between, so they are
\* one step.
TrkClear ==
    /\ trkPc = "clear"
    /\ attempt_connection_event' = FALSE
    /\ trkPc' = "ts"
    /\ IF QueueEmpty(param_queue)
         THEN UNCHANGED <<param, param_queue>>
         ELSE /\ param' = QueueGetNowait(param_queue).item
              /\ param_queue' = QueueGetNowait(param_queue).rest
    /\ UNCHANGED <<trk_exit_event, connection_lost_event, conn, ii, timestamp,
                   frame, d_angle, timestamp_queue, raw_frame, processed_frame,
                   angle_history, acqVars, chanVars, histVars, nonPipeVars>>

\* timestamp = timestamp_queue.get_nowait()
TrkPopTs ==
    /\ trkPc = "ts"
    /\ IF QueueEmpty(timestamp_queue)
         THEN /\ trkPc' = "loop"
              /\ UNCHANGED <<timestamp, timestamp_queue, param_queue, popped>>
         ELSE /\ timestamp' = QueueGetNowait(timestamp_queue).item
              /\ timestamp_queue' = QueueGetNowait(timestamp_queue).rest
              /\ popped' = popped \o QueueGetNowait(timestamp_queue).taken
              /\ trkPc' = "track"
    /\ UNCHANGED <<trk_exit_event, attempt_connection_event, connection_lost_event,
                   conn, param, ii, frame, d_angle, param_queue, raw_frame, processed_frame,
                   angle_history,
                   acqVars, chanVars, nonPipeVars,
                   pushed, sendCalls, writes, nRefresh, nAborts, acceptSinceRequest,
                   awaitingReconnect, raisesSinceFail, failedAcceptsSinceFail>>

\* frame = decode_array_to_frame(current_raw_frame); preprocess_image;
\* center_of_mass_based_tracking; d_angle = float(angles[-1] - angles[0])
TrkTrack ==
    /\ trkPc = "track"
    /\ frame' = raw_frame
    /\ d_angle' = TrackedAngle(raw_frame)
    /\ trkPc' = "send"
    /\ UNCHANGED <<trk_exit_event, attempt_connection_event, connection_lost_event,
                   conn, param, ii, timestamp, acqVars, shmVars, chanVars, histVars, nonPipeVars>>

\* outcomes of self.conn.send(...): with the peer gone the message is either
\* taken by the socket and lost, or the call raises ConnectionError
SendOutcomes == IF peerAlive THEN {"ok"} ELSE {"ok", "raised"}

\* what send_angle_through_pipe leaves in self.conn after a failed send
ConnAfterSendFailure_kept == conn
ConnAfterSendFailure == "None"

\* whether the except branch calls connection_lost_event.set()
SendFailureSetsLost_not == FALSE
SendFailureSetsLost == TRUE

\* self.send_angle_through_pipe(timestamp, d_angle)
TrkSend ==
    /\ trkPc = "send"
    /\ trkPc' = "write"
    /\ IF conn = "None"
         THEN UNCHANGED <<conn, connection_lost_event, peerAlive, wire, sendCalls,
                          awaitingReconnect, raisesSinceFail, failedAcceptsSinceFail>>
         ELSE \E outcome \in SendOutcomes :
                /\ sendCalls' = Append(sendCalls,
                                  [ts |-> timestamp, d |-> d_angle, ok |-> outcome = "ok"])
                /\ IF outcome = "ok"
                     THEN /\ wire' = Append(wire, <<timestamp, d_angle>>)
                          /\ UNCHANGED <<conn, connection_lost_event, peerAlive,
                                         awaitingReconnect, raisesSinceFail,
                                         failedAcceptsSinceFail>>
                     ELSE /\ conn' = ConnAfterSendFailure
                          /\ connection_lost_event' =
                                 IF SendFailureSetsLost THEN TRUE ELSE connection_lost_event
                          /\ awaitingReconnect' = TRUE
                          /\ raisesSinceFail' = IF SendFailureSetsLost THEN 1 ELSE 0
                          /\ failedAcceptsSinceFail' = 0
                          /\ UNCHANGED <<peerAlive, wire>>
    /\ UNCHANGED <<trk_exit_event, attempt_connection_event, param, ii, timestamp,
                   frame, d_angle, listener, backlog, acqVars, shmVars, nonPipeVars,
                   pushed, popped, writes, nRefresh, nAborts, acceptSinceRequest>>

\* self.ii = (self.ii + 1) % self.param['angle_trace_length'] (a slip: the
\* index stays where it is)
NextRingIndex_stay(i) == i
NextRingIndex(i) == (i + 1) % AngleTraceLength

\* encode_frame_to_array(processed_frame, ...); current_segment[...] = segments;
\* angle_history[0, ii] = d_angle; angle_history[1, ii] = timestamp;
\* ii = (ii + 1) % angle_trace_length
TrkWrite ==
    /\ trkPc = "write"
    /\ processed_frame' = frame
    /\ angle_history' = [angle_history EXCEPT ![ii] = <<d_angle, timestamp>>]
    /\ ii' = NextRingIndex(ii)
    /\ writes' = Append(writes, timestamp)
    /\ trkPc' = "loop"
    /\ UNCHANGED <<trk_exit_event, attempt_connection_event, connection_lost_event,
                   conn, param, timestamp, frame, d_angle, timestamp_queue, param_queue, raw_frame,
                   acqVars, chanVars, nonPipeVars,
                   pushed, popped, sendCalls, nRefresh, nAborts, acceptSinceRequest,
                   awaitingReconnect, raisesSinceFail, failedAcceptsSinceFail>>

\* what the tracking process does after its loop, first to last: close
\* every shared memory, self.conn.close() if there is a connection,
\* listener.close() (a slip: the listener first, the memories last)
TeardownOrder_listenerfirst(c) ==
    <<"listener_close">> \o (IF c = "None" THEN <<>> ELSE <<"conn_close">>)
                        \o <<"shm_close">>
TeardownOrder(c) ==
    <<"shm_close">> \o (IF c = "None" THEN <<>> ELSE <<"conn_close">>)
                   \o <<"listener_close">>

\* the while condition fails
TrkExit ==
    /\ trkPc = "loop"
    /\ trk_exit_event
    /\ trkPc' = "teardown"
    /\ trkTodo' = TeardownOrder(conn)
    /\ UNCHANGED <<trk_exit_event, attempt_connection_event, connection_lost_event,
                   conn, param, ii, timestamp, frame, d_angle, chanVars,
                   acqVars, shmVars, histVars, nonCloseVars,
                   guiPc, unlinked, acqLog, trkLog>>

\* one statement of tracker.py:128-131
TrkTeardown ==
    /\ trkPc = "teardown"
    /\ trkTodo # <<>>
    /\ trkLog' = Append(trkLog, Head(trkTodo))
    /\ trkTodo' = Tail(trkTodo)
    /\ trkPc' = IF Tail(trkTodo) = <<>> THEN "done" ELSE "teardown"
    /\ listener' = IF Head(trkTodo) = "listener_close" THEN "closed" ELSE listener
    /\ backlog' = IF Head(trkTodo) = "listener_close" THEN "empty" ELSE backlog
    /\ UNCHANGED <<trk_exit_event, attempt_connection_event, connection_lost_event,
                   conn, param, ii, timestamp, frame, d_angle, peerAlive, wire,
                   acqVars, shmVars, histVars, nonCloseVars,
                   guiPc, unlinked, acqLog>>

(* ---------------- GUI process (main.py) ---------------- *)

\* connect_button.clicked -> tracker.attempt_connection_event.set
ClickConnect ==
    /\ ~cam_exit_event
    /\ attempt_connection_event' = TRUE
    /\ acceptSinceRequest' = FALSE
    /\ UNCHANGED <<trkPc, trk_exit_event, connection_lost_event, conn, param, ii, timestamp,
                   frame, d_angle, acqVars, shmVars, chanVars, nonPipeVars,
                   pushed, popped, sendCalls, writes, nRefresh, nAborts,
                   awaitingReconnect, raisesSinceFail, failedAcceptsSinceFail>>

\* refresh_param: self.param_queue.put(self.param.__dict__); every call
\* carries the next state of the GUI's parameter object
RefreshParam ==
    /\ ~cam_exit_event
    /\ nRefresh < MaxRefresh
    /\ QueuePutEnabled(param_queue, ParamQueueMaxsize)
    /\ param_queue' = QueuePut(param_queue, nRefresh + 1)
    /\ nRefresh' = nRefresh + 1
    /\ UNCHANGED <<timestamp_queue, raw_frame, processed_frame, angle_history,
                   acqVars, trkVars, chanVars, nonPipeVars,
                   pushed, popped, sendCalls, writes, nAborts,
                   acceptSinceRequest, awaitingReconnect, raisesSinceFail,
                   failedAcceptsSinceFail>>

\* update_data_panels: if connection_lost_event.is_set(): clear it and show
\* the connect button as disconnected
GuiTick ==
    /\ ~cam_exit_event
    /\ connection_lost_event
    /\ connection_lost_event' = FALSE
    /\ UNCHANGED <<trkPc, trk_exit_event, attempt_connection_event, conn, param, ii,
                   timestamp, frame, d_angle, acqVars, shmVars, chanVars, histVars,
                   nonPipeVars>>

\* the test that guards the image update: (frame_array[-1] > 0) or
\* (frame_array[-2] > 0) (a slip: no test)
TrailerSaysFrame_always(a) == TRUE
TrailerSaysFrame(a) == a[Len(a)] > 0 \/ a[Len(a) - 1] > 0

\* update_data_panels, the timer callback: the raw or the processed region
\* is chosen by param.show_raw and read while the child processes run, so a
\* read may fall inside an encode; the image is set from the decoded frame
\* when the test passes; the connect button follows connection_lost_event.
\* The tail line and the angle plot read the other regions and change no
\* state.
update_data_panels ==
    /\ guiPc = "run"
    /\ \E show_raw \in BOOLEAN, j \in 0..4 :
         LET frame_array ==
                 IF show_raw
                   THEN IF acqPc = "encode" /\ acqFrame[1] # NoImage
                          THEN RegionDuringEncode(raw_frame, CameraRegion, j)
                          ELSE Region(raw_frame, CameraRegion)
                   ELSE IF trkPc = "write"
                          THEN RegionDuringEncode(processed_frame, ProcessedRegion, j)
                          ELSE Region(processed_frame, ProcessedRegion)
         IN view' = [tick |-> TRUE, raw |-> show_raw, trailer |-> Trailer(frame_array),
                     decoded |-> TrailerSaysFrame(frame_array)]
    /\ connection_lost_event' = FALSE
    /\ UNCHANGED <<trkPc, trk_exit_event, attempt_connection_event, conn, param, ii,
                   timestamp, frame, d_angle, acqVars, shmVars, chanVars, histVars,
                   codecVars, recvVars, estVars, closeVars, trackVars, stimVars,
                   resVars>>

\* closeEvent up to its sleep: camera.exit_acquisition_event.set();
\* tracker.exit_acquisition_event.set()
CloseEvent ==
    /\ guiPc = "run"
    /\ cam_exit_event' = TRUE
    /\ trk_exit_event' = TRUE
    /\ guiPc' = "sleep"
    /\ UNCHANGED <<acqPc, clock, acqFrame, shmVars, trkPc, attempt_connection_event,
                   connection_lost_event, conn, param, ii, timestamp, frame, d_angle,
                   chanVars, histVars, nonCloseVars, unlinked, acqLog, trkLog, trkTodo>>

\* where a child process is after Process.kill(): a process that has
\* returned or raised is gone already
AfterKill(pc) == IF pc \in {"done", "raised"} THEN pc ELSE "killed"

\* closeEvent after time.sleep(0.01): acquisition_process.kill();
\* tracking_process.kill(); gui_timer.stop().  The sockets of a killed
\* tracking process are closed with it.
CloseKill ==
    /\ guiPc = "sleep"
    /\ acqPc' = AfterKill(acqPc)
    /\ trkPc' = AfterKill(trkPc)
    /\ listener' = "closed"
    /\ backlog' = "empty"
    /\ guiPc' = "killed"
    /\ UNCHANGED <<clock, acqFrame, cam_exit_event, shmVars, trk_exit_event,
                   attempt_connection_event, connection_lost_event, conn, param, ii,
                   timestamp, frame, d_angle, peerAlive, wire, histVars,
                   nonCloseVars, unlinked, acqLog, trkLog, trkTodo>>

\* where closeEvent has to be for its close-and-unlink loop to run (a
\* slip: the loop placed before the kills)
UnlinkReady_early(pc) == pc = "sleep"
UnlinkReady(pc) == pc = "killed"

\* closeEvent: close() and unlink() of every shared memory of the window
CloseUnlink ==
    /\ UnlinkReady(guiPc)
    /\ unlinked' = TRUE
    /\ guiPc' = "closed"
    /\ UNCHANGED <<pipeVars, nonCloseVars, acqLog, trkLog, trkTodo>>

(* ---------------- the peer (stimulus program) ---------------- *)

\* Client(('localhost', port)) reaches the open listener and waits for accept
PeerConnect ==
    /\ listener = "open"
    /\ backlog = "empty"
    /\ backlog' = "client"
    /\ UNCHANGED <<listener, peerAlive, wire, acqVars, shmVars, trkVars, nonPipeVars,
                   pushed, popped, sendCalls, writes, nRefresh, nAborts, acceptSinceRequest,
                   awaitingReconnect, raisesSinceFail, failedAcceptsSinceFail>>

\* the waiting client goes away before it is accepted
PeerAbort ==
    /\ backlog = "client"
    /\ nAborts < MaxAborts
    /\ nAborts' = nAborts + 1
    /\ backlog' = "aborted"
    /\ UNCHANGED <<listener, peerAlive, wire, acqVars, shmVars, trkVars, nonPipeVars,
                   pushed, popped, sendCalls, writes, nRefresh, acceptSinceRequest,
                   awaitingReconnect, raisesSinceFail, failedAcceptsSinceFail>>

\* the connected peer is killed or closes its end
PeerDie ==
    /\ conn = "Conn"
    /\ peerAlive
    /\ peerAlive' = FALSE
    /\ UNCHANGED <<listener, backlog, wire, acqVars, shmVars, trkVars, histVars,
                   nonPipeVars>>

(***************************************************************************)
(* CHANNEL CLIENT  (src/minizfvr/communication.py, class Receiver)         *)
(*                                                                         *)
(* The host is the program that owns the Listener.  A message is named by  *)
(* its number in the order the host sent it.                               *)
(***************************************************************************)

\* Number of messages the host sends and of open_connection calls made in a
\* behaviour.
MaxHostSent == 2
MaxOpenCalls == 2

\* read_data returning None, or the list msg
ReturnsNone == [none |-> TRUE, msg |-> <<>>]
ReturnsList(m) == [none |-> FALSE, msg |-> m]

\* Receiver.__init__, with no listener on the port yet
RecvInit ==
    /\ connected = FALSE
    /\ receiver_conn = "None"
    /\ hostListening = FALSE
    /\ link = "none"
    /\ inbox = <<>>
    /\ lastRead = ReturnsNone
    /\ emitted = <<>>
    /\ lastCall = "init"
    /\ nHostSent = 0
    /\ nOpenCalls = 0
    /\ awaitingOpen = FALSE
    /\ ioAfterFail = FALSE

\* the connected flag after a refused attempt; the second definition is
\* the one open_connection uses
ConnectedAfterRefusal_true == TRUE
ConnectedAfterRefusal == FALSE

\* Receiver.open_connection: Client(...) returns when a listener is open on
\* the port and raises ConnectionRefusedError when none is
open_connection ==
    /\ nOpenCalls < MaxOpenCalls
    /\ nOpenCalls' = nOpenCalls + 1
    /\ lastCall' = "open"
    /\ awaitingOpen' = FALSE
    /\ IF ~connected
         THEN IF hostListening
                THEN /\ receiver_conn' = "open"
                     /\ connected' = TRUE
                     /\ emitted' = Append(emitted, TRUE)
                     /\ link' = "up"
                     /\ inbox' = <<>>
                ELSE /\ connected' = ConnectedAfterRefusal
                     /\ UNCHANGED <<receiver_conn, emitted, link, inbox>>
         ELSE UNCHANGED <<receiver_conn, connected, emitted, link, inbox>>
    /\ UNCHANGED <<hostListening, lastRead, nHostSent, ioAfterFail, nonRecvVars>>

\* what the except branch of read_data leaves in self.connected
ConnectedAfterReadFailure_kept == connected
ConnectedAfterReadFailure == FALSE

\* Receiver.read_data.  With the host's end up, poll and recv succeed and
\* the call drains what has arrived.  With the host's end gone, the call
\* receives some of what had arrived and then poll or recv raises (EOFError
\* after the last message, ConnectionError possibly earlier); what it had
\* received is dropped with the local list.
ReadDataBody ==
    /\ IF connected
         THEN /\ ioAfterFail' = (ioAfterFail \/ awaitingOpen)
              /\ IF link = "up"
                   THEN /\ lastRead' = IF inbox = <<>> THEN ReturnsNone
                                       ELSE ReturnsList(inbox)
                        /\ inbox' = <<>>
                        /\ lastCall' = "read"
                        /\ UNCHANGED <<connected, emitted, awaitingOpen>>
                   ELSE \E k \in 0..Len(inbox) :
                        /\ inbox' = SubSeq(inbox, k + 1, Len(inbox))
                        /\ connected' = ConnectedAfterReadFailure
                        /\ emitted' = Append(emitted, FALSE)
                        /\ lastRead' = ReturnsNone
                        /\ lastCall' = "read_failed"
                        /\ awaitingOpen' = TRUE
         ELSE /\ lastRead' = ReturnsNone
              /\ lastCall' = "read_idle"
              /\ UNCHANGED <<connected, emitted, inbox, awaitingOpen, ioAfterFail>>
    /\ UNCHANGED <<receiver_conn, hostListening, link, nHostSent, nOpenCalls>>

read_data == ReadDataBody /\ UNCHANGED nonRecvVars

\* Receiver.close
close ==
    /\ connected' = FALSE
    /\ receiver_conn' = IF receiver_conn = "None" THEN "None" ELSE "closed"
    /\ lastCall' = "close"
    /\ UNCHANGED <<hostListening, link, inbox, lastRead, emitted, nHostSent,
                   nOpenCalls, awaitingOpen, ioAfterFail, nonRecvVars>>

(* ---------------- the host ---------------- *)

\* the host opens its Listener on the port
HostListen ==
    /\ ~hostListening
    /\ hostListening' = TRUE
    /\ UNCHANGED <<connected, receiver_conn, link, inbox, lastRead, emitted,
                   lastCall, nHostSent, nOpenCalls, awaitingOpen, ioAfterFail,
                   nonRecvVars>>

\* the host sends one message on the connection
HostSend ==
    /\ link = "up"
    /\ nHostSent < MaxHostSent
    /\ nHostSent' = nHostSent + 1
    /\ inbox' = Append(inbox, nHostSent + 1)
    /\ UNCHANGED <<connected, receiver_conn, hostListening, link, lastRead,
                   emitted, lastCall, nOpenCalls, awaitingOpen, ioAfterFail,
                   nonRecvVars>>

\* the host drops its end of the connection and keeps listening
HostDrop ==
    /\ link = "up"
    /\ link' = "down"
    /\ UNCHANGED <<connected, receiver_conn, hostListening, inbox, lastRead,
                   emitted, lastCall, nHostSent, nOpenCalls, awaitingOpen,
                   ioAfterFail, nonRecvVars>>

\* the host exits: its connection and its listener are closed
HostStop ==
    /\ hostListening
    /\ hostListening' = FALSE
    /\ link' = IF link = "up" THEN "down" ELSE link
    /\ UNCHANGED <<connected, receiver_conn, inbox, lastRead, emitted, lastCall,
                   nHostSent, nOpenCalls, awaitingOpen, ioAfterFail, nonRecvVars>>

(***************************************************************************)
(* SWIM ESTIMATOR  (src/minizfvr/minizfstim/estimator.py)                  *)
(*                                                                         *)
(* Time is counted in units of 10 ms and angles in units of the vigor      *)
(* threshold, so the defaults of Estimator.__init__ are whole numbers.     *)
(* A float is a record [nan, num, den]: NaN, or the fraction num / den.    *)
(* The standard deviation is kept squared and scaled: for a window of n    *)
(* angles with sum s and sum of squares q, nanstd ** 2 = (n*q - s*s) /     *)
(* (n*n), held as num = n*q - s*s and den = n*n.                           *)
(***************************************************************************)

\* buffer_size (300 in Estimator.__init__); the model uses a short buffer.
BufferSize == 3

\* The last timestamp offered to register_new_data.
MaxTime == 9

\* vigor_window = 0.05, bias_window = 0.07, bias_baseline_window = 0.05,
\* vigor_threshold = 0.05
VigorWindow == 5
BiasWindow == 7
BiasBaselineWindow == 5
VigorThreshold == 1

\* Steps between the timestamps of consecutive samples, and the tail angles
\* offered: NaN is what the tracker sends when the chain broke.
TimeSteps == {1, 4}
Angles == {0, 2, 4, NaN}

Slots == 0..(BufferSize - 1)

Float(n, d) == [nan |-> FALSE, num |-> n, den |-> d]
FloatNaN == [nan |-> TRUE, num |-> 0, den |-> 0]

\* Python's buffer[i] for i >= -1
PyIndex(i) == i % BufferSize

RECURSIVE SumTo(_, _)
SumTo(f, k) == IF k < 0 THEN 0 ELSE f[k] + SumTo(f, k - 1)

\* count, sum and sum of squares of the angles the mask selects, NaN ignored
Count(mask) ==
    SumTo([i \in Slots |-> IF mask[i] /\ angle_buffer[i] # NaN THEN 1 ELSE 0],
          BufferSize - 1)
Sum(mask) ==
    SumTo([i \in Slots |-> IF mask[i] /\ angle_buffer[i] # NaN
                             THEN angle_buffer[i] ELSE 0],
          BufferSize - 1)
SumSq(mask) ==
    SumTo([i \in Slots |-> IF mask[i] /\ angle_buffer[i] # NaN
                             THEN angle_buffer[i] * angle_buffer[i] ELSE 0],
          BufferSize - 1)

\* np.nanstd(angle_buffer[mask]), squared: NaN for an empty or all-NaN slice
nanstd(mask) ==
    LET n == Count(mask)
    IN IF n = 0 THEN FloatNaN
       ELSE Float(n * SumSq(mask) - Sum(mask) * Sum(mask), n * n)

\* np.nanmean(angle_buffer[mask])
nanmean(mask) ==
    LET n == Count(mask)
    IN IF n = 0 THEN FloatNaN ELSE Float(Sum(mask), n)

\* a - b on floats
FloatSub(a, b) ==
    IF a.nan \/ b.nan THEN FloatNaN
    ELSE Float(a.num * b.den - b.num * a.den, a.den * b.den)

\* self.vigor > self.vigor_threshold; every comparison with NaN is False
VigorAbove(v) ==
    ~v.nan /\ v.num > VigorThreshold * VigorThreshold * v.den

\* self.vigor < self.vigor_threshold (a slip: <=)
VigorBelow_orequal(v) ==
    ~v.nan /\ v.num <= VigorThreshold * VigorThreshold * v.den
VigorBelow(v) ==
    ~v.nan /\ v.num < VigorThreshold * VigorThreshold * v.den

\* last_t > (self.bout_onset_t + self.bias_window) (a slip: >=)
BiasDue_orequal(last_t, onset_t) == last_t >= onset_t + BiasWindow
BiasDue(last_t, onset_t) == last_t > onset_t + BiasWindow

\* Estimator.__init__ with its defaults (minizfstim/main.py:96)
EstInit ==
    /\ timestamp_buffer = [i \in Slots |-> 0]
    /\ angle_buffer = [i \in Slots |-> 0]
    /\ buffer_index = -1
    /\ vigor = Float(0, 1)
    /\ bias = Float(0, 1)
    /\ in_bout = FALSE
    /\ bout_onset_t = 0
    /\ bias_calc_pending = FALSE
    /\ estCall = "init"
    /\ onsetLog = <<>>
    /\ biasLog = <<>>
    /\ nRegistered = 0

\* the timestamp of the latest sample: timestamp_buffer[buffer_index]
LastT == timestamp_buffer[PyIndex(buffer_index)]

\* (self.buffer_index + 1) % self.timestamp_buffer.size (a slip: the last
\* slot left out of the cycle)
NextBufferIndex_short(i) == (i + 1) % (BufferSize - 1)
NextBufferIndex(i) == (i + 1) % BufferSize

\* a slip: the call also ends the bout
register_new_data_endsbout(t, angle) ==
    /\ buffer_index' = NextBufferIndex(buffer_index)
    /\ timestamp_buffer' = [timestamp_buffer EXCEPT ![buffer_index'] = t]
    /\ angle_buffer' = [angle_buffer EXCEPT ![buffer_index'] = angle]
    /\ estCall' = "register"
    /\ nRegistered' = nRegistered + 1
    /\ in_bout' = FALSE
    /\ UNCHANGED <<vigor, bias, bout_onset_t, bias_calc_pending,
                   onsetLog, biasLog, nonEstVars>>

\* Estimator.register_new_data(timestamp, angle)
register_new_data(t, angle) ==
    /\ buffer_index' = NextBufferIndex(buffer_index)
    /\ timestamp_buffer' = [timestamp_buffer EXCEPT ![buffer_index'] = t]
    /\ angle_buffer' = [angle_buffer EXCEPT ![buffer_index'] = angle]
    /\ estCall' = "register"
    /\ nRegistered' = nRegistered + 1
    /\ UNCHANGED <<vigor, bias, in_bout, bout_onset_t, bias_calc_pending,
                   onsetLog, biasLog, nonEstVars>>

\* stimulus_update hands over the samples in the order the tracker sent
\* them: timestamps increase
RegisterAny ==
    \E dt \in TimeSteps, angle \in Angles :
        /\ LastT + dt <= MaxTime
        /\ register_new_data(LastT + dt, angle)

\* The same hand-over for a longer recording of a tail that is either at
\* rest or fully deflected.
MaxTimeBouts == 10
BoutAngles == {0, 4}

RegisterBout ==
    \E dt \in TimeSteps, angle \in BoutAngles :
        /\ LastT + dt <= MaxTimeBouts
        /\ register_new_data(LastT + dt, angle)

\* Estimator.update_swim_estimate
update_swim_estimate ==
    LET last_t   == LastT
        v        == nanstd([i \in Slots |-> timestamp_buffer[i] > last_t - VigorWindow])
        onset    == ~in_bout /\ VigorAbove(v)
        in_bout1 == IF onset THEN TRUE ELSE in_bout
        pending1 == IF onset THEN TRUE ELSE bias_calc_pending
        onset_t1 == IF onset THEN last_t ELSE bout_onset_t
        due      == pending1 /\ BiasDue(last_t, onset_t1)
        in_baseline_window ==
            [i \in Slots |->
                /\ timestamp_buffer[i] > last_t - BiasWindow - BiasBaselineWindow
                /\ timestamp_buffer[i] < last_t - BiasWindow]
        in_bias_window ==
            [i \in Slots |-> timestamp_buffer[i] > last_t - BiasWindow]
    IN /\ vigor' = v
       /\ in_bout' = IF VigorBelow(v) THEN FALSE ELSE in_bout1
       /\ bout_onset_t' = onset_t1
       /\ bias_calc_pending' = IF due THEN FALSE ELSE pending1
       /\ bias' = IF pending1
                    THEN IF due
                           THEN FloatSub(nanmean(in_bias_window),
                                         nanmean(in_baseline_window))
                           ELSE bias
                    ELSE Float(0, 1)
       /\ onsetLog' = IF onset THEN Append(onsetLog, last_t) ELSE onsetLog
       /\ biasLog' = IF due
                       THEN Append(biasLog, [onset |-> Len(onsetLog'), at |-> last_t])
                       ELSE biasLog
       /\ estCall' = "update"
       /\ UNCHANGED <<timestamp_buffer, angle_buffer, buffer_index, nRegistered,
                      nonEstVars>>

(***************************************************************************)
(* TAIL TRACKING  (utils.py center_of_mass_based_tracking)                 *)
(*                                                                         *)
(* Floats are exact fractions in lowest terms, or NaN (the Float records   *)
(* of the estimator).  The images have one row and base and tip lie on it, *)
(* so every square root the code takes is the root of a square and is      *)
(* exact; positions, lengths and centres of mass stay fractions.           *)
(***************************************************************************)

\* image.shape: one row of ImgWidth pixels, each 0..MaxPixel
ImgWidth == 3
MaxPixel == 1
ImageShape == <<1, ImgWidth>>
Images == [(0..(ImageShape[1] - 1)) -> [(0..(ImageShape[2] - 1)) -> 0..MaxPixel]]

\* n_segments offered: 1..MaxSegments
MaxSegments == 2

\* base and tip (x; y is the row 0) and search_area offered
BaseXs == {0, 1}
TipXs == {-2, 1, 2, 3, 4}
Radii == {Float(0, 1), Float(1, 2), Float(1, 1), Float(2, 1)}

Abs(x) == IF x < 0 THEN -x ELSE x

RECURSIVE GCD(_, _)
GCD(a, b) == IF b = 0 THEN a ELSE GCD(b, a % b)

\* n / d in lowest terms with a positive denominator, d # 0
Frac(n, d) ==
    LET g == GCD(Abs(n), Abs(d))
        s == IF d < 0 THEN -1 ELSE 1
    IN Float((s * n) \div g, (s * d) \div g)

FloatAdd(a, b) ==
    IF a.nan \/ b.nan THEN FloatNaN
    ELSE Frac(a.num * b.den + b.num * a.den, a.den * b.den)

FloatDiff(a, b) ==
    IF a.nan \/ b.nan THEN FloatNaN
    ELSE Frac(a.num * b.den - b.num * a.den, a.den * b.den)

FloatMul(a, b) ==
    IF a.nan \/ b.nan THEN FloatNaN
    ELSE Frac(a.num * b.num, a.den * b.den)

\* a / b for b # 0
FloatDiv(a, b) ==
    IF a.nan \/ b.nan THEN FloatNaN
    ELSE Frac(a.num * b.den, a.den * b.num)

\* a < b and a <= b; every comparison with NaN is False
FloatLess(a, b) == ~a.nan /\ ~b.nan /\ a.num * b.den < b.num * a.den
FloatLeq(a, b) == ~a.nan /\ ~b.nan /\ a.num * b.den <= b.num * a.den

\* np.sqrt of a fraction that is the square of a fraction
ExactRoot(q) ==
    Float(CHOOSE r \in 0..q.num : r * r = q.num,
          CHOOSE r \in 1..q.den : r * r = q.den)

\* np.sqrt(x ** 2 + y ** 2)
Length(x, y) == ExactRoot(FloatAdd(FloatMul(x, x), FloatMul(y, y)))

\* int(np.clip(v, 0, hi)) for a number v
IntClip(v, hi) ==
    IF v.num < 0 THEN 0
    ELSE IF v.num > hi * v.den THEN hi
    ELSE v.num \div v.den

\* np.arctan2(dx, dy) in quarter turns, for a vector along an axis
arctan2(dx, dy) ==
    IF dx.nan \/ dy.nan THEN FloatNaN
    ELSE CASE dx.num = 0 /\ dy.num >= 0 -> Float(0, 1)
           [] dx.num = 0 /\ dy.num < 0 -> Float(2, 1)
           [] dx.num > 0 /\ dy.num = 0 -> Float(1, 1)
           [] dx.num < 0 /\ dy.num = 0 -> Float(-1, 1)

RECURSIVE SumOver(_, _)
SumOver(f, S) ==
    IF S = {} THEN 0
    ELSE LET e == CHOOSE e \in S : TRUE IN f[e] + SumOver(f, S \ {e})

\* x0, x1, y0, y1 of find_tip_with_com for the guess (gx, gy)
Window(image_shape, gx, gy, radius) ==
    [x0 |-> IntClip(FloatDiff(gx, radius), image_shape[2]),
     x1 |-> IntClip(FloatAdd(gx, radius), image_shape[2]),
     y0 |-> IntClip(FloatDiff(gy, radius), image_shape[1]),
     y1 |-> IntClip(FloatAdd(gy, radius), image_shape[1])]

\* the pixels <<x, y>> of np.meshgrid(np.arange(x0, x1), np.arange(y0, y1))
Meshgrid(w) == (w.x0..(w.x1 - 1)) \X (w.y0..(w.y1 - 1))

\* in_radius_mask at the pixel p
in_radius_mask(p, gx, gy, radius) ==
    LET ex == FloatDiff(Float(p[1], 1), gx)
        ey == FloatDiff(Float(p[2], 1), gy)
    IN FloatLeq(FloatAdd(FloatMul(ex, ex), FloatMul(ey, ey)),
                FloatMul(radius, radius))

\* np.sum(in_radius_mask * weight * search_slice), weight 1, XX or YY for
\* k = 0, 1, 2
MaskedSum(image, w, gx, gy, radius, k) ==
    SumOver([p \in Meshgrid(w) |->
                IF in_radius_mask(p, gx, gy, radius)
                  THEN image[p[2]][p[1]] * (IF k = 0 THEN 1 ELSE p[k])
                  ELSE 0],
            Meshgrid(w))

\* what find_tip_with_com hands back: the tuple it returns and, for the
\* caller's record, the window and the total intensity it worked with
TipResult(raised, bx, by, dx, dy, w, total) ==
    [raised |-> raised, bx |-> bx, by |-> by, dx |-> dx, dy |-> dy,
     window |-> w, total_intensity |-> total]

NoWindow == [x0 |-> 0, x1 |-> 0, y0 |-> 0, y1 |-> 0]

\* return -1, -1, 0, 0
Sentinel(w, total) ==
    TipResult(FALSE, Float(-1, 1), Float(-1, 1), Float(0, 1), Float(0, 1), w, total)

\* find_tip_with_com(image, bx, by, dx, dy, lseg, radius).  int() of a NaN
\* raises ValueError.  With the centre of mass on the base the length is
\* 0.0, lseg / 0.0 is inf (nan for lseg 0.0) and its product with the 0.0
\* components is nan.
find_tip_with_com(image, image_shape, bx, by, dx, dy, lseg, radius) ==
    LET gx == FloatAdd(bx, dx)
        gy == FloatAdd(by, dy)
    IN IF gx.nan \/ gy.nan \/ radius.nan
         THEN TipResult(TRUE, bx, by, dx, dy, NoWindow, 0)
         ELSE
         LET w == Window(image_shape, gx, gy, radius)
             total_intensity == MaskedSum(image, w, gx, gy, radius, 0)
             summed_ix == MaskedSum(image, w, gx, gy, radius, 1)
             summed_iy == MaskedSum(image, w, gx, gy, radius, 2)
         IN IF w.x0 = w.x1 /\ w.y0 = w.y1 THEN Sentinel(w, 0)
            ELSE IF total_intensity = 0 THEN Sentinel(w, 0)
            ELSE
            LET com_x == Frac(summed_ix, total_intensity)
                com_y == Frac(summed_iy, total_intensity)
                vx == FloatDiff(com_x, bx)
                vy == FloatDiff(com_y, by)
                length == Length(vx, vy)
                length_ratio == FloatDiv(lseg, length)
                new_dx == IF length.num = 0 THEN FloatNaN
                          ELSE FloatMul(vx, length_ratio)
                new_dy == IF length.num = 0 THEN FloatNaN
                          ELSE FloatMul(vy, length_ratio)
            IN TipResult(FALSE, FloatAdd(bx, new_dx), FloatAdd(by, new_dy),
                         new_dx, new_dy, w, total_intensity)

\* segments = np.full((2, n_seg + 1), np.nan); segments[:, 0] = base, as a
\* sequence of columns (a slip: the base is not stored)
InitialSegments_nobase(base, n_seg) ==
    [k \in 1..(n_seg + 1) |-> <<FloatNaN, FloatNaN>>]
InitialSegments(base, n_seg) ==
    [k \in 1..(n_seg + 1) |-> IF k = 1 THEN base ELSE <<FloatNaN, FloatNaN>>]

\* if bx<0 (a slip: the test is never true)
ChainBroken_never(bx) == FALSE
ChainBroken(bx) == FloatLess(bx, Float(0, 1))

\* no call of center_of_mass_based_tracking
NoTrackCall ==
    [pc |-> "idle", img |-> <<>>, base |-> <<>>, tip |-> <<>>, n_seg |-> 0,
     search_radius |-> FloatNaN, seg_length |-> FloatNaN, i |-> 0,
     bx |-> FloatNaN, by |-> FloatNaN, dx |-> FloatNaN, dy |-> FloatNaN,
     segments |-> <<>>, angles |-> <<>>, window |-> NoWindow,
     total_intensity |-> 0]

TrackIdle == trackCall = NoTrackCall

\* center_of_mass_based_tracking(img, base, tip, n_seg, search_radius) up
\* to its loop
TrackingEntered(img, base, tip, n_seg, search_radius) ==
    LET total_length == Length(FloatDiff(tip[1], base[1]),
                               FloatDiff(tip[2], base[2]))
    IN [pc |-> "loop", img |-> img, base |-> base, tip |-> tip,
        n_seg |-> n_seg, search_radius |-> search_radius,
        seg_length |-> FloatDiv(total_length, Float(n_seg, 1)),
        i |-> 0,
        bx |-> base[1], by |-> base[2],
        dx |-> FloatDiv(FloatDiff(tip[1], base[1]), Float(n_seg, 1)),
        dy |-> FloatDiv(FloatDiff(tip[2], base[2]), Float(n_seg, 1)),
        segments |-> InitialSegments(base, n_seg),
        angles |-> [k \in 1..n_seg |-> FloatNaN],
        window |-> NoWindow, total_intensity |-> 0]

TrackInit ==
    \E img \in Images, b \in BaseXs, t \in TipXs, n_seg \in 1..MaxSegments,
       search_radius \in Radii :
        trackCall = TrackingEntered(img, <<Float(b, 1), Float(0, 1)>>,
                                    <<Float(t, 1), Float(0, 1)>>, n_seg,
                                    search_radius)

\* one pass of the loop of center_of_mass_based_tracking
TrackIterate ==
    /\ trackCall.pc = "loop"
    /\ trackCall.i < trackCall.n_seg
    /\ \E c \in {trackCall} :
       \E r \in {find_tip_with_com(c.img, ImageShape, c.bx, c.by, c.dx, c.dy,
                                   c.seg_length, c.search_radius)} :
          trackCall' =
            IF r.raised THEN [c EXCEPT !.pc = "raised"]
            ELSE IF ChainBroken(r.bx)
              THEN [c EXCEPT !.pc = "break", !.bx = r.bx, !.by = r.by,
                             !.dx = r.dx, !.dy = r.dy, !.window = r.window,
                             !.total_intensity = r.total_intensity]
              ELSE [c EXCEPT !.bx = r.bx, !.by = r.by, !.dx = r.dx,
                             !.dy = r.dy, !.window = r.window,
                             !.total_intensity = r.total_intensity,
                             !.angles[c.i + 1] = arctan2(r.dx, r.dy),
                             !.segments[c.i + 2] = <<r.bx, r.by>>,
                             !.i = c.i + 1]
    /\ UNCHANGED nonTrackVars

\* return segments, angles
TrackReturn ==
    /\ \/ trackCall.pc = "break"
       \/ trackCall.pc = "loop" /\ trackCall.i = trackCall.n_seg
    /\ trackCall' = [trackCall EXCEPT !.pc = "returned"]
    /\ UNCHANGED nonTrackVars

(***************************************************************************)
(* STIMULUS PROGRAM  (src/minizfvr/minizfstim/main.py)                     *)
(*                                                                         *)
(* StimulusControlWindow runs in one Qt thread: the timer callback and the *)
(* button and checkbox callbacks run one at a time, and the signal         *)
(* durationPassed calls its slot toggle_run_state inside                   *)
(* stimulus_generator.update.  The host of the channel runs beside it.     *)
(* stim records the run flag, the Saver's flags, whether the Saver's last  *)
(* initialize / finalize call was finalize, and the calls the latest timer *)
(* tick made on the estimator and on the Saver, in order.                  *)
(***************************************************************************)

\* Number of timer ticks in a behaviour.
MaxTicks == 2

\* calls on the estimator and on the Saver
RegisterCall(m) == [op |-> "register_new_data", m |-> m]
UpdateCall == [op |-> "update_swim_estimate", m |-> 0]
SaveTailCall(m) == [op |-> "save_tail_data", m |-> m]
SaveStimCall == [op |-> "save_stim_data", m |-> 0]

\* StimulusControlWindow.__init__ and Saver.__init__
StimInit ==
    stim = [stimulus_running |-> FALSE,
            save_tail_flag |-> FALSE,
            save_stim_flag |-> FALSE,
            finalized |-> FALSE,
            estCalls |-> <<>>,
            saveCalls |-> <<>>,
            nTicks |-> 0]

\* the flag the saving block of stimulus_update tests: the value read
\* before the generator's update (first definition) or the value
\* self.stimulus_running holds after it (second definition, the code's)
RunningAtSave_stale(before, after) == before
RunningAtSave(before, after) == after

\* Saver.initialize and Saver.finalize, as the window sees them
SaverInitialize(s) == [s EXCEPT !.finalized = FALSE]
SaverFinalize(s) == [s EXCEPT !.finalized = TRUE]

\* toggle_run_state.  Starting initializes the Saver and, with the trigger
\* box checked, returns without starting when no trigger arrives; stopping
\* finalizes the Saver.
ToggleRunState(s, triggered) ==
    IF ~s.stimulus_running
      THEN [SaverInitialize(s) EXCEPT !.stimulus_running = triggered]
      ELSE [SaverFinalize(s) EXCEPT !.stimulus_running = FALSE]

\* the start button
toggle_run_state ==
    /\ \E triggered \in BOOLEAN :
         stim' = ToggleRunState(stim, triggered \/ stim.stimulus_running)
    /\ UNCHANGED <<recvVars, nonRecvStimVars>>

\* Saver.toggle_states from the two check boxes: the box for the tail is
\* connected with is_tail = False and the box for the stimulus with
\* is_tail = True
save_tail_check ==
    /\ \E checked \in BOOLEAN : stim' = [stim EXCEPT !.save_stim_flag = checked]
    /\ stim' # stim
    /\ UNCHANGED <<recvVars, nonRecvStimVars>>

save_stim_check ==
    /\ \E checked \in BOOLEAN : stim' = [stim EXCEPT !.save_tail_flag = checked]
    /\ stim' # stim
    /\ UNCHANGED <<recvVars, nonRecvStimVars>>

\* the calls of one tick on the estimator: one register_new_data for each
\* message of data, then update_swim_estimate if the stimulus runs
EstimatorCalls(data, running) ==
    [k \in 1..Len(data.msg) |-> RegisterCall(data.msg[k])]
      \o (IF running THEN <<UpdateCall>> ELSE <<>>)

\* the calls of one tick on the Saver
SaverCalls(s, data, save) ==
    IF save
      THEN (IF s.save_tail_flag
              THEN [k \in 1..Len(data.msg) |-> SaveTailCall(data.msg[k])]
              ELSE <<>>)
           \o (IF s.save_stim_flag THEN <<SaveStimCall>> ELSE <<>>)
      ELSE <<>>

\* stimulus_update, the timer callback.  passed says that the generator
\* finds t > duration and emits durationPassed.
stimulus_update ==
    /\ stim.nTicks < MaxTicks
    /\ IF connected THEN ReadDataBody ELSE UNCHANGED recvVars
    /\ \E passed \in BOOLEAN :
       \E data \in {IF connected THEN lastRead' ELSE ReturnsNone} :
         LET before == stim.stimulus_running
             afterUpdate == IF before /\ passed
                              THEN ToggleRunState(stim, TRUE)
                              ELSE stim
             save == before /\ RunningAtSave(before, afterUpdate.stimulus_running)
         IN  /\ (passed => before)
             /\ stim' = [afterUpdate EXCEPT
                           !.estCalls = EstimatorCalls(data, before),
                           !.saveCalls = SaverCalls(afterUpdate, data, save),
                           !.nTicks = stim.nTicks + 1]
    /\ UNCHANGED nonRecvStimVars

(***************************************************************************)
(* THE TRACKER'S RESULT REGIONS  (tracker.py lines 86-87 and 118-121)      *)
(*                                                                         *)
(* The segment region is an array of 2 x SegmentColumns float64; a column  *)
(* is a point, named here by its place in the tracked chain (0 for a       *)
(* column never written).  The angle ring is allocated once, from the      *)
(* parameter the tracker starts with.                                      *)
(***************************************************************************)

\* columns of current_segment
SegmentColumns == 10

\* n_segments and angle_trace_length offered in a parameter snapshot
MaxNSegments == 10
MaxTraceLength == 3

ResParams == [n_segments : 1..MaxNSegments, angle_trace_length : 1..MaxTraceLength]

\* the regions of a specification that does not use them
ResIdle ==
    res = [pc |-> "idle", param |-> [n_segments |-> 1, angle_trace_length |-> 1],
           allocated |-> 1, ii |-> 0,
           current_segment |-> [k \in 1..SegmentColumns |-> 0],
           error |-> "none"]

\* TrackerObject.__init__ and initialize_shared_memory: the ring gets the
\* length of the first parameter, the index starts at 0, the segment
\* region is fresh shared memory
ResInit ==
    \E p \in ResParams :
        res = [pc |-> "run", param |-> p,
               allocated |-> p.angle_trace_length, ii |-> 0,
               current_segment |-> [k \in 1..SegmentColumns |-> 0],
               error |-> "none"]

\* self.param = param_queue.get_nowait()
ResParam ==
    /\ res.pc = "run"
    /\ \E p \in ResParams :
         /\ p # res.param
         /\ res' = [res EXCEPT !.param = p]
    /\ UNCHANGED <<codecVars, pipeVars, recvVars, estVars, closeVars, viewVars,
                   trackVars, stimVars>>

\* numpy's rule for dst[:, :w] = src with src of c columns
Broadcastable(c, w) == c = w \/ c = 1

\* the writes of one tracked frame: segments has n_segments + 1 columns and
\* goes into the slice [:, :n_segments + 1] of current_segment, which has
\* at most SegmentColumns columns (ValueError if the shapes differ); then
\* angle_history[0, ii] and [1, ii] are written (IndexError if ii is not
\* an index of the array) and ii advances modulo the current
\* angle_trace_length.  Only Empty is caught in the loop, so either error
\* ends the tracking process.
ResTrack ==
    /\ res.pc = "run"
    /\ LET c == res.param.n_segments + 1
           w == IF c <= SegmentColumns THEN c ELSE SegmentColumns
       IN  IF ~Broadcastable(c, w)
             THEN res' = [res EXCEPT !.pc = "raised", !.error = "ValueError"]
             ELSE IF res.ii >= res.allocated
                    THEN res' = [res EXCEPT
                                   !.pc = "raised", !.error = "IndexError",
                                   !.current_segment =
                                       [k \in 1..SegmentColumns |->
                                          IF k <= w THEN k ELSE res.current_segment[k]]]
                    ELSE res' = [res EXCEPT
                                   !.current_segment =
                                       [k \in 1..SegmentColumns |->
                                          IF k <= w THEN k ELSE res.current_segment[k]],
                                   !.ii = (res.ii + 1) % res.param.angle_trace_length]
    /\ UNCHANGED <<codecVars, pipeVars, recvVars, estVars, closeVars, viewVars,
                   trackVars, stimVars>>

(***************************************************************************)
(* SPECIFICATIONS                                                          *)
(***************************************************************************)

\* the codec at rest, for the specifications of the other components
CodecIdle ==
    /\ arr = <<>>
    /\ lastImg = NoFrame
    /\ encRaised = FALSE
    /\ out = NoFrame
    /\ nEnc = 0

InitCodec == CodecInit /\ PipeInit /\ RecvInit /\ EstInit /\ TrackIdle /\ StimInit /\ ResIdle

NextCodec == EncodeAny \/ Decode

SpecCodec == InitCodec /\ [][NextCodec]_vars

\* The codec with a reader in another process.
NextTorn == AcqEncodeSameShape \/ TrkDecodeTorn

SpecTorn == InitCodec /\ [][NextTorn]_vars

Init == PipeInit /\ CodecIdle /\ RecvInit /\ EstInit /\ TrackIdle /\ StimInit /\ ResIdle

\* The running pipeline: the two child loops, the connect button, the GUI
\* timer and the peer.
Next ==
    \/ AcqFetch \/ AcqEncode \/ AcqPut
    \/ TrkStart \/ TrkTest \/ TrkAcceptOk \/ TrkAcceptFail \/ TrkClear
    \/ TrkPopTs \/ TrkTrack \/ TrkSend \/ TrkWrite
    \/ ClickConnect \/ GuiTick
    \/ PeerConnect \/ PeerAbort \/ PeerDie

Spec == Init /\ [][Next]_vars

\* The pipeline with parameter refreshes from the GUI.
NextParam == Next \/ RefreshParam

SpecParam == Init /\ [][NextParam]_vars

\* Acquisition, the tracking loop with no peer, and the GUI editing the
\* parameters.
NextParamQueue ==
    \/ AcqFetch \/ AcqEncode \/ AcqPut
    \/ TrkStart \/ TrkTest \/ TrkClear \/ TrkPopTs \/ TrkTrack \/ TrkSend \/ TrkWrite
    \/ RefreshParam

SpecParamQueue == Init /\ [][NextParamQueue]_vars

\* Acquisition from a PointGreyCamera, with the tracking loop and no peer.
NextPointGrey ==
    \/ AcqFetch \/ AcqFetchIncomplete \/ AcqEncode \/ AcqPut
    \/ TrkStart \/ TrkTest \/ TrkClear \/ TrkPopTs \/ TrkTrack \/ TrkSend \/ TrkWrite

SpecPointGrey == Init /\ [][NextPointGrey]_vars

\* The pipeline with the window being closed.
NextClose ==
    \/ Next
    \/ CloseEvent \/ CloseKill \/ CloseUnlink
    \/ AcqExit \/ TrkExit \/ TrkTeardown

SpecClose == Init /\ [][NextClose]_vars

\* The two loops and the timer of the window, with no peer.
NextView ==
    \/ AcqFetch \/ AcqEncode \/ AcqPut
    \/ TrkStart \/ TrkTest \/ TrkClear \/ TrkPopTs \/ TrkTrack \/ TrkSend \/ TrkWrite
    \/ update_data_panels

SpecView == Init /\ [][NextView]_vars

\* The window being closed on a pipeline whose peer, if it connects, stays.
NextShutdown ==
    \/ AcqFetch \/ AcqEncode \/ AcqPut \/ AcqExit
    \/ TrkStart \/ TrkTest \/ TrkAcceptOk \/ TrkClear
    \/ TrkPopTs \/ TrkTrack \/ TrkSend \/ TrkWrite \/ TrkExit \/ TrkTeardown
    \/ ClickConnect \/ PeerConnect
    \/ CloseEvent \/ CloseKill \/ CloseUnlink

SpecShutdown == Init /\ [][NextShutdown]_vars

\* The channel client and its host.
InitRecv == RecvInit /\ CodecIdle /\ PipeInit /\ EstInit /\ TrackIdle /\ StimInit /\ ResIdle

NextRecv ==
    \/ open_connection \/ read_data \/ close
    \/ HostListen \/ HostSend \/ HostDrop \/ HostStop

SpecRecv == InitRecv /\ [][NextRecv]_vars

\* The estimator, fed and updated by stimulus_update.
InitEst == EstInit /\ CodecIdle /\ PipeInit /\ RecvInit /\ TrackIdle /\ StimInit /\ ResIdle

NextEst == RegisterAny \/ update_swim_estimate

SpecEst == InitEst /\ [][NextEst]_vars

\* The estimator over the longer recording.
NextEstBouts == RegisterBout \/ update_swim_estimate

SpecEstBouts == InitEst /\ [][NextEstBouts]_vars

\* One call of center_of_mass_based_tracking on a one-row image.
InitTrack == TrackInit /\ CodecIdle /\ PipeInit /\ RecvInit /\ EstInit /\ StimInit /\ ResIdle

NextTrack == TrackIterate \/ TrackReturn

SpecTrack == InitTrack /\ [][NextTrack]_vars

\* The stimulus window with its channel client and the host.
NextStim ==
    \/ stimulus_update \/ toggle_run_state \/ save_tail_check \/ save_stim_check
    \/ open_connection \/ HostListen \/ HostSend \/ HostDrop

SpecStim == InitRecv /\ [][NextStim]_vars

\* The tracker's writes of its results, under parameter updates.
InitResults ==
    ResInit /\ CodecIdle /\ PipeInit /\ RecvInit /\ EstInit /\ TrackIdle /\ StimInit

NextResults == ResParam \/ ResTrack

SpecResults == InitResults /\ [][NextResults]_vars

(***************************************************************************)
(* C1  round trip                                                          *)
(***************************************************************************)
FitsCodec(img) ==
    /\ img.shape[1] < Base * Base
    /\ img.shape[2] < Base * Base
    /\ Size(img) + 4 <= Capacity

\* C1: for every frame with rows, cols < 255*255 and rows*cols + 4 <= capacity,
\* decoding the buffer after the encode gives back the frame, in shape and in
\* every pixel, whatever the buffer held before the encode.
C1_RoundTrip ==
    (lastImg # NoFrame /\ FitsCodec(lastImg)) =>
        /\ ~DecodeRaises(arr)
        /\ decode_array_to_frame(arr) = lastImg

\* C1 witness: a frame with a non-zero high trailer byte was encoded over a
\* buffer that already held another frame, and was decoded back.
C1_Witness ==
    /\ nEnc = 2
    /\ ~encRaised
    /\ FitsCodec(lastImg)
    /\ lastImg.shape[1] >= Base
    /\ out = lastImg

(***************************************************************************)
(* C2 - C7  the acquisition / tracking pipeline                            *)
(***************************************************************************)

\* C2: the timestamps popped by the tracking process are, in the same order,
\* a subsequence of the timestamps pushed by acquisition, and so they are
\* non-decreasing whenever the pushed ones are, under every interleaving.
C2_PoppedInOrder ==
    /\ IsSubseq(popped, pushed)
    /\ NonDecreasing(pushed) => NonDecreasing(popped)

\* C2 witness: two timestamps were popped while acquisition had already
\* queued a third.
C2_Witness ==
    /\ Len(popped) = 2
    /\ timestamp_queue # <<>>
    /\ Len(pushed) = 3

\* the tracking loop is between the pop of a timestamp and its history write
InIteration == trkPc \in {"track", "send", "write"}

\* the timestamps of the conn.send calls, in call order
SentTs == [i \in 1..Len(sendCalls) |-> sendCalls[i].ts]

\* the step that runs send_angle_through_pipe
SendStep == trkPc = "send" /\ trkPc' = "write"

C4_PushNeverBlocks ==
    acqPc = "put" => QueuePutEnabled(timestamp_queue, TsQueueMaxsize)

\* the steps of the tracking loop other than the accept call
TrkStep ==
    \/ TrkTest \/ TrkClear \/ TrkPopTs \/ TrkTrack \/ TrkSend \/ TrkWrite

\* the step in which listener.accept() raises
AcceptFailStep == trkPc = "accept" /\ trkPc' # "accept" /\ conn' = "None"

\* C5: accept is called only in an iteration that found the attempt flag set
\* and no connection; a failed accept raises the connection-lost flag and no
\* accept follows until the flag is set again; outside the accept call the
\* loop never waits.
C5_AcceptOnlyOnRequest ==
    /\ [](trkPc = "accept" =>
            attempt_connection_event /\ conn = "None" /\ ~acceptSinceRequest)
    /\ [][AcceptFailStep => connection_lost_event']_vars
    /\ [](trkPc \in {"loop", "clear", "ts", "track", "send", "write"} =>
            ENABLED TrkStep)

\* C5 witness: an accept failed, the flag was raised and the request cleared,
\* and the loop went on to pop a timestamp with no connection.
C5_Witness ==
    /\ nAborts = 1
    /\ backlog = "empty"
    /\ acceptSinceRequest
    /\ sendCalls = <<>>
    /\ conn = "None"
    /\ connection_lost_event
    /\ ~attempt_connection_event
    /\ trkPc = "track"

\* the step in which conn.send raises
SendFailStep == Len(sendCalls') = Len(sendCalls) + 1 /\ ~Last(sendCalls').ok

\* C6: a failed send leaves conn None and the connection-lost flag set; from
\* then until the next connection nothing is sent, and a connection is made
\* only by an accept called with the attempt flag set.
C6_SendFailureDrops ==
    /\ [][SendFailStep => conn' = "None" /\ connection_lost_event']_vars
    /\ [](awaitingReconnect => conn = "None")
    /\ [][awaitingReconnect => sendCalls' = sendCalls /\ wire' = wire]_vars
    /\ [](trkPc = "accept" => attempt_connection_event)
    /\ [][conn = "None" /\ conn' # "None" =>
             trkPc = "accept" /\ attempt_connection_event]_vars

\* C6 witness: a send failed, and a later iteration passed the send with no
\* connection and without sending.
C6_Witness ==
    /\ awaitingReconnect
    /\ conn = "None"
    /\ trkPc = "write"
    /\ Last(sendCalls).ts < timestamp
    /\ ~Last(sendCalls).ok

ReadFailStep == lastCall # "read_failed" /\ lastCall' = "read_failed"

\* C8: a read_data call whose receive fails leaves the Receiver disconnected
\* and emits exactly one connectionStateChanged(False); from then until
\* open_connection is called, read_data makes no poll or recv, nothing is
\* emitted and no connection is made.
C8_ReceiveFailureDisconnects ==
    /\ [][ReadFailStep => ~connected' /\ emitted' = Append(emitted, FALSE)]_vars
    /\ [](awaitingOpen => ~connected /\ ~ioAfterFail)
    /\ [][awaitingOpen /\ awaitingOpen' =>
             /\ emitted' = emitted
             /\ inbox' = inbox
             /\ receiver_conn' \in {receiver_conn, "closed"}
             /\ link' # "up"]_vars

\* C8 witness: a receive failed on an opened connection, False was emitted,
\* and read_data was called again with a listener available and returned at
\* once.
C8_Witness ==
    /\ awaitingOpen
    /\ lastCall = "read_idle"
    /\ emitted = <<TRUE, FALSE>>
    /\ hostListening
    /\ ~connected

(***************************************************************************)
(* C9, C10  the swim estimator                                             *)
(***************************************************************************)

\* the step that is an update_swim_estimate call
UpdateStep == estCall' = "update"

\* how a vigor value stands to the threshold
AboveThreshold(v) == ~v.nan /\ v.num > VigorThreshold * VigorThreshold * v.den
BelowThreshold(v) == ~v.nan /\ v.num < VigorThreshold * VigorThreshold * v.den

\* C9: after an update_swim_estimate call: idle before and vigor above the
\* threshold gives in_bout, bout_onset_t = now and the pending flag set;
\* vigor below the threshold gives idle; in every other case in_bout and
\* bout_onset_t are as before the call.
C9_BoutTransitions ==
    [][UpdateStep =>
        /\ (~in_bout /\ AboveThreshold(vigor')) =>
              in_bout' /\ bout_onset_t' = LastT /\ bias_calc_pending'
        /\ BelowThreshold(vigor') => ~in_bout'
        /\ (~(~in_bout /\ AboveThreshold(vigor')) /\ ~BelowThreshold(vigor')) =>
              in_bout' = in_bout /\ bout_onset_t' = bout_onset_t]_vars

\* C9 witness: an update found the vigor equal to the threshold during a
\* bout and left the bout and its onset time as they were.
C9_Witness ==
    /\ estCall = "update"
    /\ in_bout
    /\ ~vigor.nan
    /\ vigor.num = VigorThreshold * VigorThreshold * vigor.den
    /\ bout_onset_t = 1
    /\ LastT > 1

\* the number of bias computations made for the k-th onset
ServedCount(k) == Cardinality({j \in 1..Len(biasLog) : biasLog[j].onset = k})

C11_PendingBiasZero ==
    (estCall = "update" /\ bias_calc_pending) => (~bias.nan /\ bias.num = 0)

\* C12: once the bias has been computed and the pending flag cleared, every
\* later call of update_swim_estimate that detects no bout onset leaves the
\* bias at the computed value.
C12_BiasPersists ==
    [][(/\ UpdateStep
        /\ biasLog # <<>>
        /\ ~bias_calc_pending
        /\ onsetLog' = onsetLog) => bias' = bias]_vars

(***************************************************************************)
(* ANGLE-HISTORY RING                                                      *)
(***************************************************************************)

\* the slots of angle_history
RingSlots == 0..(AngleTraceLength - 1)

\* the step that writes one sample into the shared arrays
WriteStep == trkPc = "write" /\ trkPc' = "loop"

\* C13: after k samples were written, the ring of angle_trace_length slots
\* holds the latest min(k, angle_trace_length) samples in circular order and
\* the slots never written are still zero; each write puts the pair
\* (d_angle, timestamp) into the next circular slot, which is the oldest
\* sample once the ring is full, and touches no other slot.
C13_RingHoldsLatest ==
    /\ [](LET k == Len(writes)
          IN /\ ii = k % AngleTraceLength
             /\ \A j \in 1..Min(k, AngleTraceLength) :
                   angle_history[(k - j) % AngleTraceLength][2] = writes[k - j + 1]
             /\ \A s \in RingSlots : s >= k => angle_history[s] = <<0, 0>>)
    /\ [][ /\ WriteStep =>
               /\ angle_history'[ii] = <<d_angle, timestamp>>
               /\ \A s \in RingSlots \ {ii} : angle_history'[s] = angle_history[s]
               /\ ii' = (ii + 1) % AngleTraceLength
           /\ ~WriteStep => (angle_history' = angle_history /\ ii' = ii) ]_vars

\* C13 witness: a third sample went into a ring of two slots: it replaced
\* the first one and the second is still there.
C13_Witness ==
    /\ Len(writes) = AngleTraceLength + 1
    /\ trkPc = "loop"
    /\ angle_history[0][2] = writes[AngleTraceLength + 1]
    /\ \A s \in RingSlots \ {0} : angle_history[s][2] = writes[s + 1]

\* C14: a frame on which the tracking chain terminated early has no valid
\* deflection, and no invalid sample is written into the angle-history ring
\* for it: no slot of the ring ever holds an angle that is not a number.
C14_NoInvalidSample ==
    \A s \in RingSlots : angle_history[s][1] # NaN

(***************************************************************************)
(* C15  frames that do not fit the buffer                                  *)
(***************************************************************************)

\* C15: an encode call on a frame with frame.size + 4 > capacity fails, both
\* when frame.size > capacity and when capacity - 4 < frame.size <= capacity:
\* a call that did not fail was made on a frame that fits with its trailer.
C15_OversizeRejected ==
    (nEnc > 0 /\ ~encRaised) => Size(lastImg) + 4 <= Len(arr)

(***************************************************************************)
(* C16  fetches that give no frame                                         *)
(***************************************************************************)

\* C16: a fetch that gives no frame, the frame None of a PointGreyCamera
\* included, is skipped: nothing is written or pushed for it, no error comes
\* out of the acquisition loop, and the loop goes on to the next fetch.
C16_FailedFetchSkipped ==
    /\ acqPc # "raised"
    /\ raw_frame # NoImage
    /\ \A i \in 1..Len(pushed) : pushed[i] # NoImage

(***************************************************************************)
(* C17 - C18  the parameter queue                                          *)
(***************************************************************************)

\* the step that runs the get_nowait on the parameter queue
ParamStep == trkPc = "clear" /\ trkPc' = "ts"

\* C17: the tracking loop takes a mapping off the parameter queue only in
\* its get_nowait step, which runs once per iteration and takes the oldest
\* mapping alone; the snapshot then is exactly that mapping, and it changes
\* at no other step.
C17_OneParamPerIteration ==
    [][ /\ (ParamStep /\ param_queue # <<>>) =>
               /\ param' = Head(param_queue)
               /\ param_queue' = Tail(param_queue)
        /\ (ParamStep /\ param_queue = <<>>) =>
               /\ param' = param
               /\ param_queue' = param_queue
        /\ ~ParamStep =>
               /\ param' = param
               /\ IsSubseq(param_queue, param_queue')
        /\ (trkPc # "clear" /\ trkPc' = "clear") => trkPc \in {"loop", "accept"}
        /\ trkPc = "clear" => trkPc' \in {"clear", "ts"} ]_vars

\* C17 witness: with two mappings queued, one iteration took the older one
\* and left the newer one queued; the snapshot is the older one.
C17_Witness ==
    /\ nRefresh = 1
    /\ trkPc = "ts"
    /\ param = 0
    /\ param_queue = <<1>>
    /\ popped = <<>>

\* C18: a full parameter queue never holds up the tracking loop, whose
\* get_nowait step can always be taken, and a mapping sent while the queue
\* is full is dropped: refresh_param can put and return in every state, so
\* no mapping waits to be applied later.
C18_ExcessParamsDropped ==
    /\ trkPc = "clear" => ENABLED TrkClear
    /\ nRefresh < MaxRefresh => QueuePutEnabled(param_queue, ParamQueueMaxsize)

(***************************************************************************)
(* C19  the estimator's circular buffer                                    *)
(***************************************************************************)

\* the step that is a register_new_data call
RegisterStep == nRegistered' = nRegistered + 1

\* C19: after k >= 1 calls of register_new_data on a buffer of BufferSize
\* slots, buffer_index is (k - 1) mod BufferSize and points at the latest
\* sample, the min(k, BufferSize) samples behind it in circular order are
\* the most recent ones from newest to oldest, and the slots never written
\* are still zero; each call writes the next circular slot and no other,
\* and no other call touches the buffer.
C19_CircularBuffer ==
    /\ [](nRegistered >= 1 =>
            /\ buffer_index = (nRegistered - 1) % BufferSize
            /\ \A s \in Slots : timestamp_buffer[s] <= timestamp_buffer[buffer_index]
            /\ \A j \in 1..(Min(nRegistered, BufferSize) - 1) :
                  timestamp_buffer[(buffer_index - j) % BufferSize]
                      < timestamp_buffer[(buffer_index - j + 1) % BufferSize]
            /\ \A s \in Slots : s >= nRegistered =>
                  (timestamp_buffer[s] = 0 /\ angle_buffer[s] = 0))
    /\ [][ /\ RegisterStep =>
               LET n == (buffer_index + 1) % BufferSize
               IN /\ buffer_index' = n
                  /\ timestamp_buffer'[n] > LastT
                  /\ \A s \in Slots \ {n} :
                        /\ timestamp_buffer'[s] = timestamp_buffer[s]
                        /\ angle_buffer'[s] = angle_buffer[s]
           /\ ~RegisterStep =>
               UNCHANGED <<timestamp_buffer, angle_buffer, buffer_index>> ]_vars

\* C19 witness: one sample more than the buffer has slots was registered:
\* the index wrapped to the first slot, whose sample is now the newest while
\* the slot after it holds the oldest one kept.
C19_Witness ==
    /\ nRegistered = BufferSize + 1
    /\ buffer_index = 0
    /\ estCall = "register"
    /\ \A s \in Slots \ {0} : timestamp_buffer[s] < timestamp_buffer[0]
    /\ \A s \in Slots \ {0, 1} : timestamp_buffer[1] < timestamp_buffer[s]

(***************************************************************************)
(* C20  the windows of the bias                                            *)
(***************************************************************************)

\* the slots that hold a registered sample
Buffered(i) == i < nRegistered

\* the buffered samples with a timestamp in [lo, hi)
HalfOpenWindow(lo, hi) ==
    [i \in Slots |-> Buffered(i) /\ timestamp_buffer[i] >= lo /\ timestamp_buffer[i] < hi]

\* equality of two floats
FloatEq(a, b) ==
    IF a.nan \/ b.nan THEN a.nan /\ b.nan ELSE a.num * b.den = b.num * a.den

\* the step that is an update_swim_estimate call which computes the bias
BiasStep == UpdateStep /\ Len(biasLog') = Len(biasLog) + 1

\* C20: a bias computed at time now is the mean angle of the buffered
\* samples with timestamp in [now - bias_window, now) minus the mean angle of
\* those with timestamp in
\* [now - bias_window - baseline_window, now - bias_window).
C20_BiasWindows ==
    [][BiasStep =>
         FloatEq(bias',
                 FloatSub(nanmean(HalfOpenWindow(LastT - BiasWindow, LastT)),
                          nanmean(HalfOpenWindow(LastT - BiasWindow - BiasBaselineWindow,
                                                 LastT - BiasWindow))))]_vars

(***************************************************************************)
(* C21  what each estimator call touches                                   *)
(***************************************************************************)

\* C21: the estimator's state changes only in its two calls:
\* register_new_data leaves vigor, bias, in_bout, bout_onset_t and the
\* pending flag as they are, and update_swim_estimate leaves the two sample
\* buffers and the buffer index as they are.
C21_CallsTouchOwnPart ==
    [][ /\ RegisterStep =>
              UNCHANGED <<vigor, bias, in_bout, bout_onset_t, bias_calc_pending>>
        /\ ~RegisterStep =>
              UNCHANGED <<timestamp_buffer, angle_buffer, buffer_index>>
        /\ (RegisterStep /\ UpdateStep) => FALSE
        /\ (~RegisterStep /\ ~UpdateStep) => UNCHANGED estVars ]_vars

\* C21 witness: a sample was registered in the middle of a bout whose bias
\* is still to be computed, after an update had set vigor and the flags.
C21_Witness ==
    /\ estCall = "register"
    /\ nRegistered >= 2
    /\ in_bout
    /\ bias_calc_pending
    /\ vigor.num > 0

(***************************************************************************)
(* C22 - C26  shutdown                                                     *)
(***************************************************************************)

\* the steps of the tracking process
TrackingNext ==
    \/ TrkStart \/ TrkTest \/ TrkAcceptOk \/ TrkAcceptFail \/ TrkClear
    \/ TrkPopTs \/ TrkTrack \/ TrkSend \/ TrkWrite \/ TrkExit \/ TrkTeardown

\* the steps of the acquisition process
AcquisitionNext == AcqFetch \/ AcqEncode \/ AcqPut \/ AcqExit

\* C22: once the tracking shutdown flag is set, the tracking process goes on
\* to the end of its teardown: wherever it is, a requested accept with no
\* peer waiting included, its next step can be taken without waiting for
\* anyone else.
C22_TrackingReachesTeardown ==
    (trk_exit_event /\ trkPc \notin {"done", "killed"}) => ENABLED TrackingNext

\* C23: once the acquisition shutdown flag is set, the acquisition process
\* goes on to leave its loop, call close() and release its handle, whatever
\* the timestamp queue holds and whatever the tracking process is doing:
\* wherever it is, its next step can be taken without waiting for anyone.
C23_AcquisitionReachesExit ==
    (cam_exit_event /\ acqPc \notin {"done", "killed", "raised"})
        => ENABLED AcquisitionNext

(***************************************************************************)
(* C24  regions nothing was written to                                     *)
(***************************************************************************)

\* C24: a frame region whose shape trailer is zero is never decoded: a
\* timer tick that finds such a trailer skips the image update, and the
\* tracking process is at its decode of the raw-frame region only when
\* acquisition has written a frame into it.
C24_ZeroTrailerNotDecoded ==
    /\ (view.tick /\ view.trailer = <<0, 0, 0, 0>>) => ~view.decoded
    /\ trkPc = "track" =>
          /\ raw_frame # 0
          /\ Trailer(Region(raw_frame, CameraRegion)) # <<0, 0, 0, 0>>

\* C24 witness: a tick found the raw-frame region with its trailer still
\* zero and skipped the update, and later the tracking process reached its
\* decode of that region.
C24_Witness ==
    /\ view.tick
    /\ view.raw
    /\ view.trailer = <<0, 0, 0, 0>>
    /\ ~view.decoded
    /\ trkPc = "track"

\* the place of x in the sequence s, 0 when it is not there
Pos(s, x) == IF \E i \in DOMAIN s : s[i] = x THEN CHOOSE i \in DOMAIN s : s[i] = x ELSE 0

\* C25: after its loop the tracking process detaches the shared regions
\* first, closes the connection next if there is one, and closes the
\* listener last; it does each once, only after the shutdown flag was set,
\* and has done all of them when it returns.
C25_TeardownOrder ==
    LET shm  == Pos(trkLog, "shm_close")
        con  == Pos(trkLog, "conn_close")
        lis  == Pos(trkLog, "listener_close")
    IN /\ \A i, j \in DOMAIN trkLog : i # j => trkLog[i] # trkLog[j]
       /\ \A i \in DOMAIN trkLog :
             trkLog[i] \in {"shm_close", "conn_close", "listener_close"}
       /\ trkLog # <<>> => (trk_exit_event /\ shm = 1)
       /\ con # 0 => (conn # "None" /\ shm < con)
       /\ lis # 0 => (shm < lis /\ (conn # "None" => (con # 0 /\ con < lis)))
       /\ trkPc = "done" => lis = Len(trkLog)
       /\ trkPc \notin {"teardown", "done", "killed"} => trkLog = <<>>

\* C25 witness: the tracking process left its loop with a connection and
\* ran all three statements.
C25_Witness ==
    /\ trkPc = "done"
    /\ conn # "None"
    /\ trkLog = <<"shm_close", "conn_close", "listener_close">>

\* C26: neither child process unlinks a shared region, each only closes
\* its own handles when it leaves; the parent alone unlinks the regions,
\* and only once each child has returned, raised or been killed.
C26_OnlyParentUnlinks ==
    /\ \A i \in DOMAIN acqLog : acqLog[i] \in {"shm_close", "camera_close"}
    /\ \A i \in DOMAIN trkLog :
          trkLog[i] \in {"shm_close", "conn_close", "listener_close"}
    /\ unlinked => /\ guiPc = "closed"
                   /\ acqPc \in {"done", "raised", "killed"}
                   /\ trkPc \in {"done", "killed"}

\* C26 witness: the regions are unlinked after acquisition returned by
\* itself, having closed its handle, and tracking was killed.
C26_Witness ==
    /\ unlinked
    /\ acqPc = "done"
    /\ Pos(acqLog, "shm_close") # 0
    /\ trkPc = "killed"

(***************************************************************************)
(* C27  a refused connection attempt                                       *)
(***************************************************************************)

\* the step that is an open_connection call
OpenStep == nOpenCalls' = nOpenCalls + 1

\* the step that is an open_connection call whose attempt is refused
RefusedStep == OpenStep /\ ~connected /\ ~hostListening

\* nothing but an open_connection call makes the Receiver connected
NoRetryByItself == (~connected /\ connected') => OpenStep

AllZero(img) == \A y \in DOMAIN img : \A x \in DOMAIN img[y] : img[y][x] = 0

Apart(p, q, d) ==
    /\ ~p[1].nan /\ ~p[2].nan /\ ~q[1].nan /\ ~q[2].nan
    /\ Length(FloatDiff(q[1], p[1]), FloatDiff(q[2], p[2])) = d

\* C29: when tracking has returned without breaking out of its chain, every
\* two consecutive segment positions it returns lie at the distance
\* seg_length = |tip - base| / n from each other.
C29_FixedSegmentLength ==
    (trackCall.pc = "returned" /\ trackCall.i = trackCall.n_seg) =>
        \A k \in 1..trackCall.n_seg :
            Apart(trackCall.segments[k], trackCall.segments[k + 1],
                  trackCall.seg_length)

\* the step that is a pass of the tracking loop with a guess that is a number
GuessStep ==
    /\ trackCall.pc = "loop"
    /\ trackCall.i < trackCall.n_seg
    /\ trackCall' # trackCall
    /\ ~FloatAdd(trackCall.bx, trackCall.dx).nan
    /\ ~FloatAdd(trackCall.by, trackCall.dy).nan

\* the clipped search window of that pass
GuessWindow ==
    Window(ImageShape, FloatAdd(trackCall.bx, trackCall.dx),
           FloatAdd(trackCall.by, trackCall.dy), trackCall.search_radius)

\* the window holds no pixel: it is empty in x, in y or in both
NoPixel(w) == w.x0 >= w.x1 \/ w.y0 >= w.y1

\* the total intensity inside the circular mask of that pass
GuessTotal ==
    MaskedSum(trackCall.img, GuessWindow, FloatAdd(trackCall.bx, trackCall.dx),
              FloatAdd(trackCall.by, trackCall.dy), trackCall.search_radius, 0)

\* C30: in a pass of the tracking loop whose clipped search window holds no
\* image pixel (empty in x, in y or in both), or whose total intensity inside
\* the circular mask is exactly zero, find_tip_with_com returns the sentinel
\* (-1, -1, 0, 0) and the chain stops there: no angle and no position is
\* stored in this pass, and the next step returns the arrays as they are.
C30_SentinelStopsChain ==
    [][/\ (GuessStep /\ (NoPixel(GuessWindow) \/ GuessTotal = 0)) =>
             /\ trackCall'.pc = "break"
             /\ <<trackCall'.bx, trackCall'.by, trackCall'.dx, trackCall'.dy>>
                   = <<Float(-1, 1), Float(-1, 1), Float(0, 1), Float(0, 1)>>
             /\ trackCall'.i = trackCall.i
             /\ trackCall'.segments = trackCall.segments
             /\ trackCall'.angles = trackCall.angles
       /\ trackCall.pc = "break" =>
             /\ trackCall'.pc = "returned"
             /\ trackCall'.segments = trackCall.segments
             /\ trackCall'.angles = trackCall.angles]_vars

\* C30 witness: the chain found its first segment and stopped at the
\* second, whose window was empty in x and not in y.
C30_Witness ==
    /\ trackCall.pc = "break"
    /\ trackCall.i = 1
    /\ trackCall.window.x0 = trackCall.window.x1
    /\ trackCall.window.y0 < trackCall.window.y1

\* C31: a pass of the tracking loop whose search window holds a pixel and
\* whose total intensity inside the mask is positive records its segment
\* (the new point and its angle) and the chain goes on, wherever the new
\* point lies, a negative x coordinate included.
C31_OnlyTwoEarlyExits ==
    [][(GuessStep /\ ~NoPixel(GuessWindow) /\ GuessTotal > 0) =>
          /\ trackCall'.pc = "loop"
          /\ trackCall'.i = trackCall.i + 1
          /\ trackCall'.segments[trackCall.i + 2]
                = <<trackCall'.bx, trackCall'.by>>
          /\ trackCall'.angles[trackCall.i + 1]
                = arctan2(trackCall'.dx, trackCall'.dy)]_vars

(***************************************************************************)
(* C32  the raw frame at the pop of a timestamp                            *)
(***************************************************************************)

\* the frames acquisition has encoded into the raw-frame region, in order:
\* those whose timestamp was pushed, and the one whose put is still to come
EncodedFrames ==
    pushed \o (IF acqPc = "put" THEN <<acqFrame[1]>> ELSE <<>>)

\* the step in which the tracking loop takes a timestamp off the queue
PopStep == popped' # popped

RequestCleared == attempt_connection_event /\ ~attempt_connection_event'

\* C33: no connection request is lost: when the tracking loop clears a set
\* attempt-connection flag while it has no connection, it has called
\* listener.accept() since the flag was last set, at whatever point of the
\* loop iteration the connect button set it.
C33_RequestNeverLost ==
    [][(RequestCleared /\ conn = "None") => acceptSinceRequest]_vars

(***************************************************************************)
(* C34  messages taken by read_data                                        *)
(***************************************************************************)

\* the read_data call that takes messages off the connection
TakenStep == Len(inbox') < Len(inbox) /\ nOpenCalls' = nOpenCalls

\* C34: read_data hands every message it has taken off the connection to
\* its caller, in the order sent: the list it returns is exactly what the
\* call received, also when the connection fails partway through.
C34_NoMessageDiscarded ==
    [][TakenStep =>
          /\ ~lastRead'.none
          /\ lastRead'.msg = SubSeq(inbox, 1, Len(inbox) - Len(inbox'))]_vars

(***************************************************************************)
(* C35 - C36  the stimulus timer tick                                      *)
(***************************************************************************)

TickStep == stim'.nTicks = stim.nTicks + 1

\* the messages a step takes off the connection
TakenByStep == SubSeq(inbox, 1, Len(inbox) - Len(inbox'))

\* C35: on a timer tick while connected, every message the tick takes off
\* the connection is registered in the estimator, in arrival order,
\* whether or not the stimulus runs; update_swim_estimate is called at
\* most once, only while the stimulus runs, and after the registrations.
C35_TickRegistersThenUpdates ==
    [][(TickStep /\ connected) =>
          stim'.estCalls =
              [k \in 1..Len(TakenByStep) |-> RegisterCall(TakenByStep[k])]
                \o (IF stim.stimulus_running THEN <<UpdateCall>> ELSE <<>>)]_vars

C37_SegmentWriteFits == res.error # "ValueError"

\* C38: the ring's write index is an index of the ring as allocated at
\* start-up, whatever frames were tracked and parameters received.
C38_RingIndexInsideAllocated == res.ii \in 0..(res.allocated - 1)

(***************************************************************************)
(* C39  decodes that fall inside an encode                                 *)
(***************************************************************************)

\* C39: with all acquired frames of one shape, every decode of the raw
\* region by the tracking process succeeds and yields a frame of that
\* shape, wherever in acquisition's encode the read falls.
C39_TornDecodeKeepsShape ==
    out # NoFrame => (~out.none /\ out.shape = lastImg.shape)

(***************************************************************************)
(* C40  slots never written                                                *)
(***************************************************************************)

\* the slots register_new_data has written
WrittenSlots == {i \in Slots : i < nRegistered}

\* C40: the samples update_swim_estimate takes for the vigor were all
\* registered: no slot that was never written lies in the vigor window, for
\* any timestamps and also before the first registration.
C40_VigorUsesRegisteredOnly ==
    estCall = "update" =>
        \A i \in Slots :
            timestamp_buffer[i] > LastT - VigorWindow => i \in WrittenSlots

====
